---- MODULE Spec2Model ----
(***************************************************************************)
(* Titan Automation: rule-based target-folder resolution and file routing. *)
(*                                                                         *)
(* The model follows RoutingRule (models/routing_rule.py), Job             *)
(* (models/job.py), ConfigManager (config/manager.py) and RoutingEngine    *)
(* (core/routing_engine.py).                                               *)
(*                                                                         *)
(* Conventions                                                             *)
(*  - Python None is the string PyNone; the tri-state "success" values of  *)
(*    process_file are the strings "True", "False" and PyNone.             *)
(*  - A dict with string keys is a function whose DOMAIN is its key set.   *)
(*  - A stored rule record (a JSON dict) is a record with the field        *)
(*    "present" (the keys the dict holds) and one field per recognised     *)
(*    key; the field of an absent key holds a fixed placeholder.           *)
(*  - A path is a sequence of path components; os.path.join appends.       *)
(***************************************************************************)
EXTENDS Integers, Sequences, FiniteSets, TLC

VARIABLES
    routing_rules,       \* config["routing_rules"]: printer -> sequence of rule records
    hotfolder_root,      \* config["hotfolder_root"]: a path, << >> when unset ("")
    enable_art_copy,     \* config["enable_art_copy"]
    client_art_folders,  \* config["client_art_folders"]: client -> path
    dirs,                \* filesystem: the directories that exist
    files,               \* filesystem: the files copied so far (destination paths)
    call                 \* the last operation invoked, its arguments and what it returned

vars == <<routing_rules, hotfolder_root, enable_art_copy, client_art_folders,
          dirs, files, call>>

----------------------------------------------------------------------------
(* Bounds of the model *)

\* total number of rule records stored in the configuration
MaxRules == 2

\* length of the folder list handed to analyze_routing_setup
MaxFolders == 2

----------------------------------------------------------------------------
(* Python values *)

PyNone == "<None>"

EmptyDict == [k \in {} |-> ""]

\* dict.get(key, default)
DictGet(d, key, default) == IF key \in DOMAIN d THEN d[key] ELSE default

\* the positions of s from i on that are in keep, in order
RECURSIVE SelectIdx(_, _, _)
SelectIdx(s, keep, i) ==
    IF i > Len(s) THEN << >>
    ELSE (IF i \in keep THEN << i >> ELSE << >>) \o SelectIdx(s, keep, i + 1)

----------------------------------------------------------------------------
(* models/job.py *)

BaseCriteriaKeys ==
    {"Print Mode", "Media Group", "Job Type", "Bleed", "Registration",
     "Rotation", "Finish", "Grommets", "Pole Pockets", "Mirror"}

\* the dataclass defaults of Job, restricted to the fields routing reads
DefaultJob ==
    [printer |-> "", client |-> "", print_mode |-> "Roll", ssds_mode |-> "SS",
     media_group |-> "Vinyl", job_type |-> "Standard", bleed |-> "None",
     registration |-> "None", rotation |-> "None", finish |-> "Glossy",
     grommets |-> "None", pole_pockets |-> "None", mirror |-> "No"]

\* the literal dict built at the top of get_routing_criteria
JobAttribute(job, key) ==
    CASE key = "Print Mode"   -> job.print_mode
      [] key = "Media Group"  -> job.media_group
      [] key = "Job Type"     -> job.job_type
      [] key = "Bleed"        -> job.bleed
      [] key = "Registration" -> job.registration
      [] key = "Rotation"     -> job.rotation
      [] key = "Finish"       -> job.finish
      [] key = "Grommets"     -> job.grommets
      [] key = "Pole Pockets" -> job.pole_pockets
      [] key = "Mirror"       -> job.mirror
      [] key = "SSDS Mode"    -> job.ssds_mode

\* the values the final comprehension of get_routing_criteria drops
DroppedValues == {"", "None", "No"}

\* get_routing_criteria with "No" left out of the dropped values
get_routing_criteria_keeps_no(job) ==
    LET keys == BaseCriteriaKeys \cup
                (IF job.print_mode = "Flatbed" THEN {"SSDS Mode"} ELSE {})
        kept == {k \in keys : JobAttribute(job, k) \notin {"", "None"}}
    IN  [k \in kept |-> JobAttribute(job, k)]

\* get_routing_criteria that adds the SSDS mode whatever the print mode
get_routing_criteria_ssds_always(job) ==
    LET keys == BaseCriteriaKeys \cup {"SSDS Mode"}
        kept == {k \in keys : JobAttribute(job, k) \notin DroppedValues}
    IN  [k \in kept |-> JobAttribute(job, k)]

get_routing_criteria(job) ==
    LET keys == BaseCriteriaKeys \cup
                (IF job.print_mode = "Flatbed" THEN {"SSDS Mode"} ELSE {})
        kept == {k \in keys : JobAttribute(job, k) \notin DroppedValues}
    IN  [k \in kept |-> JobAttribute(job, k)]

----------------------------------------------------------------------------
(* models/routing_rule.py *)

RuleKeys == {"target_folder", "priority", "criteria"}

\* a stored rule record holding the given keys
RuleRecord(present, target, priority, criteria) ==
    [present       |-> present,
     target_folder |-> IF "target_folder" \in present THEN target ELSE "",
     priority      |-> IF "priority" \in present THEN priority ELSE "",
     criteria      |-> IF "criteria" \in present THEN criteria ELSE EmptyDict]

\* RoutingRule.from_dict: the object it returns
from_dict(data) ==
    [target_folder |-> IF "target_folder" \in data.present
                       THEN data.target_folder ELSE "",
     priority      |-> IF "priority" \in data.present
                       THEN data.priority ELSE "Normal",
     criteria      |-> IF "criteria" \in data.present
                       THEN data.criteria ELSE EmptyDict]

\* RoutingRule.from_dict: the dict it was given, as the call leaves it
\* (data['criteria'] = {} when the key is missing)
from_dict_data(data) ==
    IF "criteria" \notin data.present
    THEN [data EXCEPT !.present = @ \cup {"criteria"}, !.criteria = EmptyDict]
    ELSE data

\* matches_job comparing the two mappings for equality
matches_job_equality(rule, job) ==
    IF DOMAIN rule.criteria = {} THEN FALSE
    ELSE rule.criteria = get_routing_criteria(job)

\* matches_job without the early return on empty criteria
matches_job_no_empty_check(rule, job) ==
    \A rule_key \in DOMAIN rule.criteria :
        DictGet(get_routing_criteria(job), rule_key, PyNone) = rule.criteria[rule_key]

matches_job(rule, job) ==
    IF DOMAIN rule.criteria = {} THEN FALSE
    ELSE LET job_criteria == get_routing_criteria(job)
         IN  \A rule_key \in DOMAIN rule.criteria :
                 DictGet(job_criteria, rule_key, PyNone) = rule.criteria[rule_key]

get_priority_weight(rule) ==
    CASE rule.priority = "High"   -> 3
      [] rule.priority = "Normal" -> 2
      [] rule.priority = "Low"    -> 1
      [] OTHER                    -> 2

----------------------------------------------------------------------------
(* config/manager.py, config/constants.py *)

\* config["printers"]: folder name -> {display_name, ...}, in dict order.
\* has_display_name is FALSE for an entry without the "display_name" key.
printers ==
    << [folder_name |-> "Canon",  has_display_name |-> TRUE,  display_name |-> "Canon"],
       [folder_name |-> "S60_HF", has_display_name |-> TRUE,  display_name |-> "S60"] >>

\* the printer names a job can carry: the printer radio buttons of the job
\* form offer get_active_printers(); test_routing and Job.validate refuse an
\* empty printer before the engine is called
PrinterNames == {"Canon", "S60"}

RECURSIVE printer_folder_scan(_, _)
printer_folder_scan(display_name, i) ==
    IF i > Len(printers) THEN display_name
    ELSE IF (IF printers[i].has_display_name THEN printers[i].display_name
             ELSE printers[i].folder_name) = display_name
         THEN printers[i].folder_name
         ELSE printer_folder_scan(display_name, i + 1)

\* get_printer_folder_name that takes the display name for the folder name
get_printer_folder_name_display(display_name) == display_name

\* ConfigManager.get_printer_folder_name(display_name)
get_printer_folder_name(display_name) == printer_folder_scan(display_name, 1)

\* ConfigManager.get_routing_rules(printer) on the rules mapping `rules`
get_routing_rules(rules, printer) ==
    IF printer # "" THEN DictGet(rules, printer, << >>) ELSE rules

\* add_routing_rule that puts the new rule before the printer's other rules
add_routing_rule_first(rules, printer, rule) ==
    LET withKey == IF printer \in DOMAIN rules THEN rules
                   ELSE [p \in DOMAIN rules \cup {printer} |->
                            IF p \in DOMAIN rules THEN rules[p] ELSE << >>]
    IN  [withKey EXCEPT ![printer] = << rule >> \o @]

\* ConfigManager.add_routing_rule: the rules mapping after the call
add_routing_rule(rules, printer, rule) ==
    LET withKey == IF printer \in DOMAIN rules THEN rules
                   ELSE [p \in DOMAIN rules \cup {printer} |->
                            IF p \in DOMAIN rules THEN rules[p] ELSE << >>]
    IN  [withKey EXCEPT ![printer] = Append(@, rule)]

\* the number of rule records the configuration stores
RECURSIVE CountRules(_, _)
CountRules(rules, ps) ==
    IF ps = {} THEN 0
    ELSE LET p == CHOOSE q \in ps : TRUE
         IN  Len(rules[p]) + CountRules(rules, ps \ {p})

----------------------------------------------------------------------------
(* core/routing_engine.py: target-folder resolution *)

\* list.sort(key=get_priority_weight, reverse=True) is stable: an element is
\* placed behind every element whose weight is greater or equal
RECURSIVE InsertByWeight(_, _)
InsertByWeight(sorted, x) ==
    IF sorted = << >> THEN << x >>
    ELSE IF get_priority_weight(Head(sorted)[2]) >= get_priority_weight(x[2])
         THEN << Head(sorted) >> \o InsertByWeight(Tail(sorted), x)
         ELSE << x >> \o sorted

RECURSIVE SortFrom(_, _, _)
SortFrom(s, i, acc) ==
    IF i > Len(s) THEN acc ELSE SortFrom(s, i + 1, InsertByWeight(acc, s[i]))

\* the sort without reverse=True: reversed() of the descending stable order
sort_by_priority_ascending(matching) ==
    LET d == SortFrom(matching, 1, << >>)
    IN  [i \in DOMAIN d |-> d[Len(d) + 1 - i]]

sort_by_priority(matching) == SortFrom(matching, 1, << >>)

\* the (i, rule) pairs of the rules that match, i counted from 0
find_matching_rules(routing_rules_data, job) ==
    LET objs == [i \in DOMAIN routing_rules_data |-> from_dict(routing_rules_data[i])]
        idx  == SelectIdx(objs, {i \in DOMAIN objs : matches_job(objs[i], job)}, 1)
    IN  [n \in DOMAIN idx |-> << idx[n] - 1, objs[idx[n]] >>]

\* determine_target_folder falling back to the first rule when none matches
determine_target_folder_fallback(rules, job) ==
    LET routing_rules_data == get_routing_rules(rules, job.printer)
    IN  IF routing_rules_data = << >> THEN PyNone
        ELSE LET matching_rules == find_matching_rules(routing_rules_data, job)
                 ordered == IF Len(matching_rules) > 1
                            THEN sort_by_priority(matching_rules)
                            ELSE matching_rules
             IN  IF matching_rules = << >>
                 THEN from_dict(routing_rules_data[1]).target_folder
                 ELSE ordered[1][2].target_folder

\* RoutingEngine.determine_target_folder: the value returned
determine_target_folder(rules, job) ==
    LET routing_rules_data == get_routing_rules(rules, job.printer)
    IN  IF routing_rules_data = << >> THEN PyNone
        ELSE LET matching_rules == find_matching_rules(routing_rules_data, job)
                 ordered == IF Len(matching_rules) > 1
                            THEN sort_by_priority(matching_rules)
                            ELSE matching_rules
             IN  IF matching_rules = << >> THEN PyNone
                 ELSE ordered[1][2].target_folder

\* the rules mapping after every record of `printer` went through from_dict
rules_after_from_dict(rules, printer) ==
    IF printer \in DOMAIN rules
    THEN [rules EXCEPT ![printer] = [i \in DOMAIN @ |-> from_dict_data(@[i])]]
    ELSE rules

\* test_job_routing reporting the matching rules in priority order
test_job_routing_sorted(rules, job) ==
    LET target_folder == determine_target_folder(rules, job)
        after == rules_after_from_dict(rules, job.printer)
        routing_rules_data == get_routing_rules(after, job.printer)
        matching == sort_by_priority(find_matching_rules(routing_rules_data, job))
    IN  [job_criteria   |-> get_routing_criteria(job),
         target_folder  |-> target_folder,
         matching_rules |-> [n \in DOMAIN matching |->
                               [index         |-> matching[n][1],
                                target_folder |-> matching[n][2].target_folder,
                                criteria      |-> matching[n][2].criteria,
                                priority      |-> matching[n][2].priority]],
         printer        |-> job.printer,
         success        |-> target_folder # PyNone]

\* RoutingEngine.test_job_routing: the dict returned
test_job_routing(rules, job) ==
    LET target_folder == determine_target_folder(rules, job)
        after == rules_after_from_dict(rules, job.printer)
        routing_rules_data == get_routing_rules(after, job.printer)
        matching == find_matching_rules(routing_rules_data, job)
    IN  [job_criteria   |-> get_routing_criteria(job),
         target_folder  |-> target_folder,
         matching_rules |-> [n \in DOMAIN matching |->
                               [index         |-> matching[n][1],
                                target_folder |-> matching[n][2].target_folder,
                                criteria      |-> matching[n][2].criteria,
                                priority      |-> matching[n][2].priority]],
         printer        |-> job.printer,
         success        |-> target_folder # PyNone]

----------------------------------------------------------------------------
(* core/routing_engine.py: folder analysis *)

\* str.lower() on one character
LowerChar(c) ==
    CASE c = "A" -> "a" [] c = "B" -> "b" [] c = "C" -> "c" [] c = "D" -> "d"
      [] c = "E" -> "e" [] c = "F" -> "f" [] c = "G" -> "g" [] c = "H" -> "h"
      [] c = "I" -> "i" [] c = "J" -> "j" [] c = "K" -> "k" [] c = "L" -> "l"
      [] c = "M" -> "m" [] c = "N" -> "n" [] c = "O" -> "o" [] c = "P" -> "p"
      [] c = "Q" -> "q" [] c = "R" -> "r" [] c = "S" -> "s" [] c = "T" -> "t"
      [] c = "U" -> "u" [] c = "V" -> "v" [] c = "W" -> "w" [] c = "X" -> "x"
      [] c = "Y" -> "y" [] c = "Z" -> "z" [] OTHER -> c

RECURSIVE Lower(_)
Lower(s) ==
    IF Len(s) = 0 THEN ""
    ELSE LowerChar(SubSeq(s, 1, 1)) \o Lower(SubSeq(s, 2, Len(s)))

\* Python's  kw in s  on strings
Contains(kw, s) ==
    \E i \in 1..(Len(s) - Len(kw) + 1) : SubSeq(s, i, i + Len(kw) - 1) = kw

\* media_keywords, in dict order
media_keywords ==
    << <<"vinyl", "Vinyl">>, <<"banner", "Banner">>, <<"scrim", "Banner">>,
       <<"mesh", "Banner">>, <<"paper", "Paper">>, <<"canvas", "Paper">> >>

\* the media keyword scan that lets the last keyword found win
RECURSIVE media_scan_last_wins(_, _)
media_scan_last_wins(folder_lower, i) ==
    IF i > Len(media_keywords) THEN PyNone
    ELSE LET later == media_scan_last_wins(folder_lower, i + 1)
         IN  IF later # PyNone THEN later
             ELSE IF Contains(media_keywords[i][1], folder_lower)
                  THEN media_keywords[i][2]
                  ELSE PyNone

RECURSIVE media_scan(_, _)
media_scan(folder_lower, i) ==
    IF i > Len(media_keywords) THEN PyNone
    ELSE IF Contains(media_keywords[i][1], folder_lower) THEN media_keywords[i][2]
         ELSE media_scan(folder_lower, i + 1)

\* the value detect_folder_attributes stores under `attr`, PyNone when it stores none
detected_value(attr, f) ==
    CASE attr = "Bleed" ->
           IF Contains("bleed", f) THEN "Bleed" ELSE PyNone
      [] attr = "Rotation" ->
           IF Contains("90", f) \/ Contains("rotated", f) \/ Contains("rotate", f)
           THEN "90 CW" ELSE PyNone
      [] attr = "Registration" ->
           IF Contains("icut", f) THEN "iCut"
           ELSE IF Contains("graphtec", f) THEN "Graphtec" ELSE PyNone
      [] attr = "Finish" ->
           IF Contains("matte", f) THEN "Matte"
           ELSE IF Contains("glossy", f) THEN "Glossy" ELSE PyNone
      [] attr = "Grommets" ->
           IF ~Contains("grommet", f) THEN PyNone
           ELSE IF Contains("corner", f) THEN "Corners"
           ELSE IF Contains("top", f) THEN "Top"
           ELSE IF Contains("bottom", f) THEN "Bottom"
           ELSE IF Contains("side", f) THEN "Sides"
           ELSE "All"
      [] attr = "Pole Pockets" ->
           IF ~(Contains("pole", f) \/ Contains("pocket", f)) THEN PyNone
           ELSE IF Contains("top", f) /\ Contains("bottom", f) THEN "Top & Bottom"
           ELSE IF Contains("top", f) THEN "Top"
           ELSE IF Contains("bottom", f) THEN "Bottom"
           ELSE IF Contains("side", f) THEN "Sides"
           ELSE "Top & Bottom"
      [] attr = "Mirror" ->
           IF Contains("mirror", f) THEN "Yes" ELSE PyNone
      [] attr = "Print Mode" ->
           IF Contains("flatbed", f) THEN "Flatbed"
           ELSE IF Contains("roll", f) THEN "Roll" ELSE PyNone
      [] attr = "Job Type" ->
           IF Contains("rush", f) THEN "Rush" ELSE PyNone
      [] attr = "Media Group" -> media_scan(f, 1)

DetectableAttributes ==
    {"Bleed", "Rotation", "Registration", "Finish", "Grommets", "Pole Pockets",
     "Mirror", "Print Mode", "Job Type", "Media Group"}

detect_folder_attributes(folder_name) ==
    LET folder_lower == Lower(folder_name)
        found == {a \in DetectableAttributes : detected_value(a, folder_lower) # PyNone}
    IN  [a \in found |-> detected_value(a, folder_lower)]

\* folder names found under a printer's hotfolder
FolderNames == {"A", "B", "Matte Bleed"}

\* detect_folder_attributes is pure: its value for every folder name in use
folder_attributes == [f \in FolderNames |-> detect_folder_attributes(f)]

\* get_media_config(printer).keys(): no printer_media_config override is
\* configured, so these are the keys of DEFAULT_MEDIA_CONFIG
media_groups == << "Vinyl", "Banner", "Paper" >>

job_types == << "Standard", "Rush", "Reprint" >>

\* the values rules require under the criterion `key` (falsy values skipped)
covered_values(rules, key) ==
    {rules[i].criteria[key] :
        i \in {j \in DOMAIN rules : key \in DOMAIN rules[j].criteria
                                    /\ rules[j].criteria[key] # ""}}

find_coverage_gaps(rules) ==
    LET mg == SelectSeq(media_groups,
                        LAMBDA m : m \notin covered_values(rules, "Media Group"))
        jt == SelectSeq(job_types,
                        LAMBDA t : t \notin covered_values(rules, "Job Type"))
    IN  [i \in DOMAIN mg |-> [type |-> "Media Group", value |-> mg[i]]] \o
        [i \in DOMAIN jt |-> [type |-> "Job Type", value |-> jt[i]]]

\* analyze_routing_setup that lists every folder without rules as unmapped
analyze_routing_setup_all_unmapped(rules, printer, folders) ==
    LET objs == LET data == get_routing_rules(rules, printer)
                IN  [i \in DOMAIN data |-> from_dict(data[i])]
        \* per folder of the loop: len(folder_rules) and detected_attrs
        nrules == [n \in DOMAIN folders |->
                     Cardinality({i \in DOMAIN objs :
                                    objs[i].target_folder = folders[n]})]
        detected == [n \in DOMAIN folders |-> folder_attributes[folders[n]]]
        folder_info(n) ==
            [folder |-> folders[n], rules |-> nrules[n], detected |-> detected[n]]
        mapped   == SelectIdx(folders, {n \in DOMAIN folders : nrules[n] # 0}, 1)
        auto     == SelectIdx(folders,
                     {n \in DOMAIN folders : nrules[n] = 0 /\ DOMAIN detected[n] # {}}, 1)
        unmapped == SelectIdx(folders,
                     {n \in DOMAIN folders : nrules[n] = 0}, 1)
        conflict == SelectIdx(folders, {n \in DOMAIN folders : nrules[n] > 1}, 1)
        ncrit(i) == Cardinality(DOMAIN objs[i].criteria)
    IN  [printer               |-> printer,
         total_folders         |-> Len(folders),
         total_rules           |-> Len(objs),
         mapped_folders        |-> [k \in DOMAIN mapped |-> folder_info(mapped[k])],
         unmapped_folders      |-> [k \in DOMAIN unmapped |-> folders[unmapped[k]]],
         auto_detected_folders |-> [k \in DOMAIN auto |-> folder_info(auto[k])],
         conflicting_rules     |-> [k \in DOMAIN conflict |->
                                      [folder     |-> folders[conflict[k]],
                                       rule_count |-> nrules[conflict[k]]]],
         coverage_gaps         |-> find_coverage_gaps(objs),
         rule_quality          |->
            [good |-> Cardinality({i \in DOMAIN objs : ncrit(i) >= 3}),
             fair |-> Cardinality({i \in DOMAIN objs : ncrit(i) \in {1, 2}}),
             poor |-> Cardinality({i \in DOMAIN objs : ncrit(i) < 1})]]

\* RoutingEngine.analyze_routing_setup: the dict returned
analyze_routing_setup(rules, printer, folders) ==
    LET objs == LET data == get_routing_rules(rules, printer)
                IN  [i \in DOMAIN data |-> from_dict(data[i])]
        \* per folder of the loop: len(folder_rules) and detected_attrs
        nrules == [n \in DOMAIN folders |->
                     Cardinality({i \in DOMAIN objs :
                                    objs[i].target_folder = folders[n]})]
        detected == [n \in DOMAIN folders |-> folder_attributes[folders[n]]]
        folder_info(n) ==
            [folder |-> folders[n], rules |-> nrules[n], detected |-> detected[n]]
        mapped   == SelectIdx(folders, {n \in DOMAIN folders : nrules[n] # 0}, 1)
        auto     == SelectIdx(folders,
                     {n \in DOMAIN folders : nrules[n] = 0 /\ DOMAIN detected[n] # {}}, 1)
        unmapped == SelectIdx(folders,
                     {n \in DOMAIN folders : nrules[n] = 0 /\ DOMAIN detected[n] = {}}, 1)
        conflict == SelectIdx(folders, {n \in DOMAIN folders : nrules[n] > 1}, 1)
        ncrit(i) == Cardinality(DOMAIN objs[i].criteria)
    IN  [printer               |-> printer,
         total_folders         |-> Len(folders),
         total_rules           |-> Len(objs),
         mapped_folders        |-> [k \in DOMAIN mapped |-> folder_info(mapped[k])],
         unmapped_folders      |-> [k \in DOMAIN unmapped |-> folders[unmapped[k]]],
         auto_detected_folders |-> [k \in DOMAIN auto |-> folder_info(auto[k])],
         conflicting_rules     |-> [k \in DOMAIN conflict |->
                                      [folder     |-> folders[conflict[k]],
                                       rule_count |-> nrules[conflict[k]]]],
         coverage_gaps         |-> find_coverage_gaps(objs),
         rule_quality          |->
            [good |-> Cardinality({i \in DOMAIN objs : ncrit(i) >= 3}),
             fair |-> Cardinality({i \in DOMAIN objs : ncrit(i) \in {1, 2}}),
             poor |-> Cardinality({i \in DOMAIN objs : ncrit(i) < 1})]]

----------------------------------------------------------------------------
(* Inputs of the routing operations *)

\* target folders rules name
TargetNames == {"A", "B"}

\* criteria mappings of the stored rules
CriteriaMatte == [k \in {"Finish"} |-> "Matte"]

CriteriaMatteBleed ==
    [k \in {"Finish", "Bleed"} |-> IF k = "Finish" THEN "Matte" ELSE "Bleed"]

\* rule records as the configuration document can hold them: complete ones
\* with one or two criteria, one with empty criteria, and ones that lack the
\* "priority" key (the Normal-weight rule of target B) or the "criteria" key
RuleSet ==
    { RuleRecord(RuleKeys, "A", p, c) :
        p \in {"High", "Normal", "Low"},
        c \in {CriteriaMatte, CriteriaMatteBleed} }
    \cup { RuleRecord(RuleKeys, "B", p, c) :
        p \in {"High", "Low"},
        c \in {CriteriaMatte, CriteriaMatteBleed} }
    \cup { RuleRecord(RuleKeys, "A", "High", EmptyDict),
           RuleRecord({"target_folder", "criteria"}, "B", "", CriteriaMatte),
           RuleRecord({"target_folder", "priority"}, "A", "High", EmptyDict) }

\* jobs of the job form: a printer is selected (test_routing and Job.validate
\* refuse an empty one); the finishing options vary
RoutingJobs ==
    { [DefaultJob EXCEPT !.printer = p, !.client = "Client A",
                         !.finish = fb[1], !.bleed = fb[2]] :
        p \in PrinterNames,
        fb \in {<<"Glossy", "None">>, <<"Matte", "None">>, <<"Matte", "Bleed">>} }

RECURSIVE SeqsUpTo(_, _)
SeqsUpTo(S, n) ==
    IF n = 0 THEN {<< >>}
    ELSE LET shorter == SeqsUpTo(S, n - 1)
         IN  shorter \cup {Append(q, x) : q \in shorter, x \in S}

FolderLists == SeqsUpTo(FolderNames, MaxFolders)

----------------------------------------------------------------------------
(* Operations on the configuration and the routing engine *)

\* ConfigManager.add_routing_rule(printer, rule)
AddRoutingRule ==
    \E printer \in PrinterNames, rule \in RuleSet :
        /\ CountRules(routing_rules, DOMAIN routing_rules) < MaxRules
        /\ routing_rules' = add_routing_rule(routing_rules, printer, rule)
        /\ call' = [op |-> "add_routing_rule", printer |-> printer, rule |-> rule]
        /\ UNCHANGED <<hotfolder_root, enable_art_copy, client_art_folders, dirs, files>>

\* RoutingEngine.determine_target_folder(job)
DetermineTargetFolder ==
    \E job \in RoutingJobs :
        /\ call' = [op     |-> "determine_target_folder",
                    job    |-> job,
                    rules  |-> get_routing_rules(routing_rules, job.printer),
                    result |-> determine_target_folder(routing_rules, job)]
        /\ routing_rules' = rules_after_from_dict(routing_rules, job.printer)
        /\ UNCHANGED <<hotfolder_root, enable_art_copy, client_art_folders, dirs, files>>

\* RoutingEngine.test_job_routing(job)
TestJobRouting ==
    \E job \in RoutingJobs :
        /\ call' = [op     |-> "test_job_routing",
                    job    |-> job,
                    rules  |-> get_routing_rules(routing_rules, job.printer),
                    result |-> test_job_routing(routing_rules, job)]
        /\ routing_rules' = rules_after_from_dict(routing_rules, job.printer)
        /\ UNCHANGED <<hotfolder_root, enable_art_copy, client_art_folders, dirs, files>>

\* RoutingEngine.analyze_routing_setup(printer, folders)
AnalyzeRoutingSetup ==
    \E printer \in PrinterNames, folders \in FolderLists :
        /\ call' = [op      |-> "analyze_routing_setup",
                    printer |-> printer,
                    folders |-> folders,
                    rules   |-> get_routing_rules(routing_rules, printer),
                    result  |-> analyze_routing_setup(routing_rules, printer, folders)]
        /\ routing_rules' = rules_after_from_dict(routing_rules, printer)
        /\ UNCHANGED <<hotfolder_root, enable_art_copy, client_art_folders, dirs, files>>

\* the state after ConfigManager() found no config file: DEFAULT_CONFIG
Init ==
    /\ routing_rules = EmptyDict
    /\ hotfolder_root = << >>
    /\ enable_art_copy = TRUE
    /\ client_art_folders = EmptyDict
    /\ dirs = {}
    /\ files = {}
    /\ call = [op |-> "none"]

\* configuration and target-folder resolution
Next ==
    \/ AddRoutingRule
    \/ DetermineTargetFolder
    \/ TestJobRouting

Spec == Init /\ [][Next]_vars

\* every operation of the engine that reads the routing rules
NextEngine ==
    \/ AddRoutingRule
    \/ DetermineTargetFolder
    \/ TestJobRouting
    \/ AnalyzeRoutingSetup

SpecEngine == Init /\ [][NextEngine]_vars

\* rule records of the configuration documents the analysis is run on
AnalysisRuleSet ==
    { RuleRecord(RuleKeys, "A", "High", CriteriaMatte),
      RuleRecord(RuleKeys, "A", "Low", CriteriaMatteBleed),
      RuleRecord(RuleKeys, "B", "High", CriteriaMatte),
      RuleRecord({"target_folder", "priority"}, "A", "High", EmptyDict) }

\* the state after ConfigManager() loaded a configuration document with
\* rules for the first printer, for both printers or for none
InitAnalyze ==
    /\ routing_rules \in
          {EmptyDict}
          \cup { [p \in {"Canon"} |-> rs] : rs \in SeqsUpTo(AnalysisRuleSet, MaxRules) }
          \cup { [p \in PrinterNames |->
                    IF p = "Canon" THEN rs
                    ELSE << RuleRecord(RuleKeys, "B", "Low", CriteriaMatte),
                            RuleRecord(RuleKeys, "B", "High", CriteriaMatteBleed) >>] :
                    rs \in SeqsUpTo(AnalysisRuleSet, MaxRules) }
    /\ hotfolder_root = << >>
    /\ enable_art_copy = TRUE
    /\ client_art_folders = EmptyDict
    /\ dirs = {}
    /\ files = {}
    /\ call = [op |-> "none"]

NextAnalyze ==
    \/ AnalyzeRoutingSetup

SpecAnalyze == InitAnalyze /\ [][NextAnalyze]_vars

----------------------------------------------------------------------------
(* Rule matching and criteria derivation on their own *)

\* every dict over a subset of the keys of `choices`, each key with one of its values
RECURSIVE DictsOver(_)
DictsOver(choices) ==
    IF DOMAIN choices = {} THEN {EmptyDict}
    ELSE LET k    == CHOOSE x \in DOMAIN choices : TRUE
             rest == DictsOver([x \in DOMAIN choices \ {k} |-> choices[x]])
         IN  rest \cup
             { [x \in DOMAIN d \cup {k} |-> IF x = k THEN v ELSE d[x]] :
                 d \in rest, v \in choices[k] }

\* the values a rule may require, per criterion; "Media" is a key no job derives
CriterionChoices ==
    [k \in {"Finish", "Bleed", "Mirror", "SSDS Mode", "Media"} |->
        CASE k = "Finish"    -> {"Matte", "Glossy", ""}
          [] k = "Bleed"     -> {"Bleed", "None"}
          [] k = "Mirror"    -> {"Yes", "No"}
          [] k = "SSDS Mode" -> {"DS"}
          [] k = "Media"     -> {"Glossy"}]

MatchRules ==
    { [target_folder |-> "A", priority |-> "Normal", criteria |-> c] :
        c \in DictsOver(CriterionChoices) }

MatchJobs ==
    { [DefaultJob EXCEPT !.printer = "Canon", !.client = "Client A",
                         !.print_mode = pm, !.ssds_mode = sd, !.finish = fi,
                         !.bleed = bl, !.mirror = mi, !.media_group = mg] :
        pm \in {"Roll", "Flatbed"}, sd \in {"SS", "DS"},
        fi \in {"Glossy", "Matte", ""}, bl \in {"None", "Bleed"},
        mi \in {"No", "Yes"}, mg \in {"Vinyl", "Banner"} }

\* jobs in which every attribute routing reads is either set or an unset value
CriteriaJobs ==
    { [printer |-> "Canon", client |-> "Client A",
       print_mode |-> pm, ssds_mode |-> sd, media_group |-> mg, job_type |-> jt,
       bleed |-> bl, registration |-> rg, rotation |-> ro, finish |-> fi,
       grommets |-> gr, pole_pockets |-> pp, mirror |-> mi] :
        pm \in {"Roll", "Flatbed", ""}, sd \in {"SS", "DS", "None"},
        mg \in {"Vinyl", ""}, jt \in {"Rush", ""}, bl \in {"None", "Bleed"},
        rg \in {"None", "iCut"}, ro \in {"None", "90 CW"}, fi \in {"Matte", "No"},
        gr \in {"None", "All"}, pp \in {"None", "Top & Bottom"},
        mi \in {"No", "Yes"} }

\* RoutingRule.matches_job(job) on the rule and the job drawn initially
MatchesJob ==
    /\ call.op = "pending" /\ call.fn = "matches_job"
    /\ call' = [op |-> "matches_job", rule |-> call.rule, job |-> call.job,
                result |-> matches_job(call.rule, call.job)]
    /\ UNCHANGED <<routing_rules, hotfolder_root, enable_art_copy,
                   client_art_folders, dirs, files>>

\* Job.get_routing_criteria() on the job drawn initially
GetRoutingCriteria ==
    /\ call.op = "pending" /\ call.fn = "get_routing_criteria"
    /\ call' = [op |-> "get_routing_criteria", job |-> call.job,
                result |-> get_routing_criteria(call.job)]
    /\ UNCHANGED <<routing_rules, hotfolder_root, enable_art_copy,
                   client_art_folders, dirs, files>>

\* a rule object and a job, or a job alone, about to be handed to the function
InitMatch ==
    /\ routing_rules = EmptyDict
    /\ hotfolder_root = << >>
    /\ enable_art_copy = TRUE
    /\ client_art_folders = EmptyDict
    /\ dirs = {}
    /\ files = {}
    /\ call \in { [op |-> "pending", fn |-> "matches_job", rule |-> r, job |-> j] :
                    r \in MatchRules, j \in MatchJobs }
          \cup { [op |-> "pending", fn |-> "get_routing_criteria", job |-> j] :
                    j \in CriteriaJobs }

NextMatch ==
    \/ MatchesJob
    \/ GetRoutingCriteria

SpecMatch == InitMatch /\ [][NextMatch]_vars

----------------------------------------------------------------------------
(* core/routing_engine.py: file processing *)

\* None where a path is expected
NoPath == << >>

\* Python's  a or b  on the success values: a when a is truthy, else b
PyOr(a, b) == IF a = "True" THEN a ELSE b

\* not s.strip(): nothing but blanks
IsBlank(s) == \A i \in 1..Len(s) : SubSeq(s, i, i) = " "

\* What a file operation can do besides succeeding.  os.makedirs(exist_ok=True)
\* may raise when it has to create the directory; shutil.copy2 may raise a
\* PermissionError or another OSError.
HotfolderFaults == {"none", "makedirs", "copy"}
ArtCopyFaults == {"none", "PermissionError", "OSError"}

\* route_to_hotfolder that creates the printer folder instead of requiring it
route_to_hotfolder_makes_printer_folder(filename, job, fault) ==
    IF hotfolder_root = << >> \/ hotfolder_root \notin dirs
    THEN [result |-> [success |-> "False", error |-> "Hotfolder root not set or doesn't exist",
                      path |-> NoPath],
          made |-> {}, copied |-> {}, rules |-> routing_rules]
    ELSE LET printer_path == Append(hotfolder_root, get_printer_folder_name(job.printer))
             determined   == determine_target_folder(routing_rules, job)
             target_path  == Append(printer_path,
                                IF determined \in {PyNone, ""} THEN "Default" ELSE determined)
         IN  [result |-> [success |-> "True", error |-> PyNone, path |-> target_path],
              made   |-> {printer_path, target_path} \ dirs,
              copied |-> {Append(target_path, filename)},
              rules  |-> rules_after_from_dict(routing_rules, job.printer)]

\* route_to_hotfolder whose handler drops the exception and reports success
route_to_hotfolder_swallows_error(filename, job, fault) ==
    IF hotfolder_root = << >> \/ hotfolder_root \notin dirs
    THEN [result |-> [success |-> "False", error |-> "Hotfolder root not set or doesn't exist",
                      path |-> NoPath],
          made |-> {}, copied |-> {}, rules |-> routing_rules]
    ELSE
    LET printer_path == Append(hotfolder_root, get_printer_folder_name(job.printer))
        determined   == determine_target_folder(routing_rules, job)
        target_path  == Append(printer_path,
                           IF determined \in {PyNone, ""} THEN "Default" ELSE determined)
        after        == rules_after_from_dict(routing_rules, job.printer)
        reported     == [success |-> "True", error |-> PyNone, path |-> target_path]
    IN  IF printer_path \notin dirs
        THEN [result |-> [success |-> "False", error |-> "Printer folder doesn't exist",
                          path |-> NoPath],
              made |-> {}, copied |-> {}, rules |-> routing_rules]
        ELSE IF fault = "makedirs" /\ target_path \notin dirs
        THEN [result |-> reported, made |-> {}, copied |-> {}, rules |-> after]
        ELSE IF fault = "copy"
        THEN [result |-> reported, made |-> {target_path} \ dirs, copied |-> {},
              rules |-> after]
        ELSE [result |-> reported, made |-> {target_path} \ dirs,
              copied |-> {Append(target_path, filename)}, rules |-> after]

\* RoutingEngine.route_to_hotfolder: the dict returned, the directories made,
\* the files copied and the rules mapping it leaves
route_to_hotfolder(filename, job, fault) ==
    IF hotfolder_root = << >> \/ hotfolder_root \notin dirs
    THEN [result |-> [success |-> "False", error |-> "Hotfolder root not set or doesn't exist",
                      path |-> NoPath],
          made |-> {}, copied |-> {}, rules |-> routing_rules]
    ELSE
    LET printer_folder == get_printer_folder_name(job.printer)
        printer_path   == Append(hotfolder_root, printer_folder)
    IN  IF printer_path \notin dirs
        THEN [result |-> [success |-> "False", error |-> "Printer folder doesn't exist",
                          path |-> NoPath],
              made |-> {}, copied |-> {}, rules |-> routing_rules]
        ELSE
        LET determined    == determine_target_folder(routing_rules, job)
            after         == rules_after_from_dict(routing_rules, job.printer)
            \* "if not target_folder": None and "" alike
            target_folder == IF determined \in {PyNone, ""} THEN "Default" ELSE determined
            target_path   == Append(printer_path, target_folder)
            failed        == [success |-> "False", error |-> "Hotfolder routing failed",
                              path |-> NoPath]
        IN  IF fault = "makedirs" /\ target_path \notin dirs
            THEN [result |-> failed, made |-> {}, copied |-> {}, rules |-> after]
            ELSE IF fault = "copy"
            THEN [result |-> failed, made |-> {target_path} \ dirs, copied |-> {},
                  rules |-> after]
            ELSE [result |-> [success |-> "True", error |-> PyNone, path |-> target_path],
                  made   |-> {target_path} \ dirs,
                  copied |-> {Append(target_path, filename)},
                  rules  |-> after]

\* copy_to_client_art_folder that reports a missing mapping as a failure
copy_to_client_art_folder_unmapped_fails(filename, job, fault) ==
    IF job.client = "" \/ IsBlank(job.client)
    THEN [result |-> [success |-> PyNone, path |-> NoPath, error |-> PyNone],
          copied |-> {}]
    ELSE IF job.client \notin DOMAIN client_art_folders
    THEN [result |-> [success |-> "False", path |-> NoPath,
                      error |-> "No art folder mapping"],
          copied |-> {}]
    ELSE IF client_art_folders[job.client] \notin dirs \/ fault # "none"
    THEN [result |-> [success |-> "False", path |-> NoPath,
                      error |-> "Art folder copy failed"],
          copied |-> {}]
    ELSE [result |-> [success |-> "True", path |-> client_art_folders[job.client],
                      error |-> PyNone],
          copied |-> {Append(client_art_folders[job.client], filename)}]

\* copy_to_client_art_folder that skips a mapped folder that does not exist
copy_to_client_art_folder_skips_missing_folder(filename, job, fault) ==
    IF \/ job.client = "" \/ IsBlank(job.client)
       \/ job.client \notin DOMAIN client_art_folders
       \/ client_art_folders[job.client] \notin dirs
    THEN [result |-> [success |-> PyNone, path |-> NoPath, error |-> PyNone],
          copied |-> {}]
    ELSE IF fault = "PermissionError"
    THEN [result |-> [success |-> "False", path |-> NoPath,
                      error |-> "Permission denied accessing art folder"],
          copied |-> {}]
    ELSE IF fault = "OSError"
    THEN [result |-> [success |-> "False", path |-> NoPath,
                      error |-> "Art folder copy failed"],
          copied |-> {}]
    ELSE [result |-> [success |-> "True", path |-> client_art_folders[job.client],
                      error |-> PyNone],
          copied |-> {Append(client_art_folders[job.client], filename)}]

\* RoutingEngine.copy_to_client_art_folder: the dict returned and the files copied
copy_to_client_art_folder(filename, job, fault) ==
    LET skipped == [success |-> PyNone, path |-> NoPath, error |-> PyNone]
    IN  IF job.client = "" \/ IsBlank(job.client)
        THEN [result |-> skipped, copied |-> {}]
        ELSE IF job.client \notin DOMAIN client_art_folders
        THEN [result |-> skipped, copied |-> {}]
        ELSE
        LET art_folder == client_art_folders[job.client]
        IN  IF art_folder \notin dirs
            THEN [result |-> [success |-> "False", path |-> NoPath,
                              error |-> "Client art folder doesn't exist"],
                  copied |-> {}]
            ELSE IF fault = "PermissionError"
            THEN [result |-> [success |-> "False", path |-> NoPath,
                              error |-> "Permission denied accessing art folder"],
                  copied |-> {}]
            ELSE IF fault = "OSError"
            THEN [result |-> [success |-> "False", path |-> NoPath,
                              error |-> "Art folder copy failed"],
                  copied |-> {}]
            ELSE [result |-> [success |-> "True", path |-> art_folder, error |-> PyNone],
                  copied |-> {Append(art_folder, filename)}]

\* the steps process_file runs, in order, each with what it returned and did
process_steps_stop_on_failure(filename, job, hot_fault, art_fault) ==
    LET hot == route_to_hotfolder(filename, job, hot_fault)
    IN  << [step |-> "route_to_hotfolder", out |-> hot] >> \o
        (IF enable_art_copy /\ hot.result.success = "True"
         THEN << [step |-> "copy_to_client_art_folder",
                  out  |-> copy_to_client_art_folder(filename, job, art_fault)] >>
         ELSE << >>)

\* process_file that runs the art-copy step without asking the configuration
process_steps_art_copy_always(filename, job, hot_fault, art_fault) ==
    << [step |-> "route_to_hotfolder",
        out  |-> route_to_hotfolder(filename, job, hot_fault)],
       [step |-> "copy_to_client_art_folder",
        out  |-> copy_to_client_art_folder(filename, job, art_fault)] >>

\* RoutingEngine.process_file, lines 37-44: the steps it runs, in order, each
\* with what it returned and did
process_steps(filename, job, hot_fault, art_fault) ==
    << [step |-> "route_to_hotfolder",
        out  |-> route_to_hotfolder(filename, job, hot_fault)] >> \o
    (IF enable_art_copy
     THEN << [step |-> "copy_to_client_art_folder",
              out  |-> copy_to_client_art_folder(filename, job, art_fault)] >>
     ELSE << >>)

\* results["success"] of process_file taken from the hotfolder step alone
overall_success_hotfolder_only(hotfolder, art_copy) == hotfolder.success

\* results["success"] of process_file
overall_success(hotfolder, art_copy) == PyOr(hotfolder.success, art_copy.success)

\* RoutingEngine.process_file: the dict returned
process_file(filename, steps) ==
    LET hotfolder == steps[1].out.result
        art_copy  == IF Len(steps) > 1 THEN steps[2].out.result
                     ELSE [success |-> PyNone, path |-> NoPath, error |-> PyNone]
    IN  [success   |-> overall_success(hotfolder, art_copy),
         hotfolder |-> hotfolder,
         art_copy  |-> art_copy,
         filename  |-> filename]

\* jobs that passed Job.validate: printer selected, client not blank
ProcessJobs ==
    { [DefaultJob EXCEPT !.printer = p, !.client = "Client A", !.finish = f] :
        p \in PrinterNames, f \in {"Glossy", "Matte"} }

\* the name FilenameGenerator.generate produced for the job
Filenames == {"TIT_Client_24x36_QTY1.pdf"}

\* RoutingEngine.process_file(file_path, filename, job) for one job; the file
\* operations of the two steps succeed or raise
ProcessFileOf(job) ==
    \E filename \in Filenames,
       hot_fault \in HotfolderFaults, art_fault \in ArtCopyFaults :
      \E steps \in {process_steps(filename, job, hot_fault, art_fault)} :
        LET art_copied == IF Len(steps) > 1 THEN steps[2].out.copied ELSE {}
            art_error  == IF Len(steps) > 1 THEN steps[2].out.result.error ELSE PyNone
        IN  /\ dirs' = dirs \cup steps[1].out.made
            /\ files' = files \cup steps[1].out.copied \cup art_copied
            /\ routing_rules' = steps[1].out.rules
            /\ call' = [op       |-> "process_file",
                        job      |-> job,
                        filename |-> filename,
                        \* the file operation of each step that raised, if any
                        raised   |->
                           [hotfolder |->
                               IF steps[1].out.result.error = "Hotfolder routing failed"
                               THEN hot_fault ELSE "none",
                            art_copy  |->
                               IF art_error \in {"Permission denied accessing art folder",
                                                 "Art folder copy failed"}
                               THEN art_fault ELSE "none"],
                        steps    |-> [i \in DOMAIN steps |->
                                        [step     |-> steps[i].step,
                                         returned |-> steps[i].out.result]],
                        result   |-> process_file(filename, steps)]
            /\ UNCHANGED <<hotfolder_root, enable_art_copy, client_art_folders>>

\* JobSetupTab.process_file reaching RoutingEngine.process_file with a job
\* that passed Job.validate
ProcessFile == \E job \in ProcessJobs : ProcessFileOf(job)

\* jobs as RoutingEngine.process_file accepts them when called without the
\* job form's validation: the client may be empty, blank or unknown
AnyClientJobs ==
    { [DefaultJob EXCEPT !.printer = "Canon", !.client = c] :
        c \in {"", "  ", "Client A", "Client B"} }

\* RoutingEngine.process_file called with any job
ProcessFileAnyClient == \E job \in AnyClientJobs : ProcessFileOf(job)

\* the paths of the filesystem the model follows
HotRoot == << "hot" >>
ArtFolderA == << "art", "Client A" >>

\* directory layouts found when the program starts: with or without the
\* hotfolder root, the printer folders, a target sub-folder, the art folder
InitialDirs ==
    { hot \cup art :
        hot \in { {},
                  {HotRoot},
                  {HotRoot, <<"hot", "Canon">>},
                  {HotRoot, <<"hot", "Canon">>, <<"hot", "S60_HF">>},
                  {HotRoot, <<"hot", "Canon">>, <<"hot", "Canon", "A">>} },
        art \in { {<<"art">>}, {<<"art">>, ArtFolderA} } }

\* rule sequences of a loaded configuration document
LoadedRules ==
    { EmptyDict,
      [p \in {"Canon"} |->
          << RuleRecord(RuleKeys, "A", "Normal", CriteriaMatte) >>],
      [p \in {"Canon", "S60"} |->
          IF p = "Canon"
          THEN << RuleRecord(RuleKeys, "A", "Low", CriteriaMatte),
                  RuleRecord(RuleKeys, "B", "High", CriteriaMatte) >>
          ELSE << RuleRecord({"target_folder", "priority"}, "A", "High", EmptyDict) >>] }

\* the state after ConfigManager() loaded a configuration document
InitProcess ==
    /\ routing_rules \in LoadedRules
    /\ hotfolder_root \in {<< >>, HotRoot}
    /\ enable_art_copy \in BOOLEAN
    /\ client_art_folders \in {EmptyDict, [c \in {"Client A"} |-> ArtFolderA]}
    /\ dirs \in InitialDirs
    /\ files = {}
    /\ call = [op |-> "none"]

NextProcess ==
    \/ ProcessFile

SpecProcess == InitProcess /\ [][NextProcess]_vars

NextAnyClient ==
    \/ ProcessFileAnyClient

\* the engine driven directly, clients unrestricted
SpecAnyClient == InitProcess /\ [][NextAnyClient]_vars

----------------------------------------------------------------------------
(* core/filename_generator.py *)

\* self.default_extension
default_extension == ".pdf"

\* datetime.now().strftime("%m-%d-%y") on the day of the run
today == "11-04-26"

\* str.strip(): leading and trailing blanks removed
RECURSIVE LStrip(_)
LStrip(s) ==
    IF Len(s) > 0 /\ SubSeq(s, 1, 1) = " " THEN LStrip(SubSeq(s, 2, Len(s))) ELSE s

RECURSIVE RStrip(_)
RStrip(s) ==
    IF Len(s) > 0 /\ SubSeq(s, Len(s), Len(s)) = " "
    THEN RStrip(SubSeq(s, 1, Len(s) - 1)) ELSE s

Strip(s) == RStrip(LStrip(s))

\* str.replace(old, new) for a one-character old
RECURSIVE Replace(_, _, _)
Replace(s, old, new) ==
    IF Len(s) = 0 THEN ""
    ELSE (IF SubSeq(s, 1, 1) = old THEN new ELSE SubSeq(s, 1, 1))
         \o Replace(SubSeq(s, 2, Len(s)), old, new)

\* sep.join(parts)
RECURSIVE Join(_, _)
Join(parts, sep) ==
    IF Len(parts) = 0 THEN ""
    ELSE IF Len(parts) = 1 THEN parts[1]
    ELSE parts[1] \o sep \o Join(Tail(parts), sep)

\* get_value(key, default) of _build_parts_map: str(job_data.get(key, default)).strip()
get_value(job_data, key, default) == Strip(DictGet(job_data, key, default))

\* the keys of the dict _build_parts_map returns
PartKeys ==
    {"job_number", "client", "size", "quantity", "finish", "bleed", "rotation",
     "registration", "grommets", "pole_pockets", "mirror", "date", "custom_text"}

\* FilenameGenerator._build_parts_map(job_data)
build_parts_map(job_data) ==
    [k \in PartKeys |->
        CASE k = "job_number" -> get_value(job_data, "job_prefix", "TIT")
                                   \o get_value(job_data, "job_suffix", "")
          [] k = "size"       -> get_value(job_data, "size_w", "") \o "x"
                                   \o get_value(job_data, "size_h", "")
          [] k = "quantity"   -> "QTY" \o get_value(job_data, "quantity", "1")
          [] k = "date"       -> today
          [] OTHER            -> get_value(job_data, k, "")]

\* include_flags.get(component_key, True) with False for the default
is_included_default_false(include_flags, component_key) ==
    DictGet(include_flags, component_key, FALSE)

\* include_flags.get(component_key, True)
is_included(include_flags, component_key) ==
    DictGet(include_flags, component_key, TRUE)

\* the two skip tests of generate without the one for a bare "x"
is_skipped_keeps_bare_x(component_key, part) ==
    part = "" \/ Lower(part) \in {"none", "no", ""}

\* the two skip tests of generate: empty or "none"/"no"; a size of just "x"
is_skipped(component_key, part) ==
    \/ part = "" \/ Lower(part) \in {"none", "no", ""}
    \/ component_key = "size" /\ part = "x"

\* the cleaning of generate that leaves "&" alone
clean_part_keeps_ampersand(part) == Replace(part, " ", "_")

\* str(part).replace(" ", "_").replace("&", "and")
clean_part(part) == Replace(Replace(part, " ", "_"), "&", "and")

\* the loop of generate over components_order from position i on
RECURSIVE ordered_parts(_, _, _, _)
ordered_parts(parts_map, components_order, include_flags, i) ==
    IF i > Len(components_order) THEN << >>
    ELSE LET component_key == components_order[i]
             part == DictGet(parts_map, component_key, "")
             rest == ordered_parts(parts_map, components_order, include_flags, i + 1)
         IN  IF ~is_included(include_flags, component_key) THEN rest
             ELSE IF is_skipped(component_key, part) THEN rest
             ELSE << clean_part(part) >> \o rest

\* FilenameGenerator.generate(job_data, components_order, include_flags)
generate(job_data, components_order, include_flags) ==
    LET parts == ordered_parts(build_parts_map(job_data), components_order,
                               include_flags, 1)
    IN  IF Len(parts) > 0 THEN Join(parts, "_") \o default_extension
        ELSE "untitled" \o default_extension

\* the form data of a job as generate receives it (Job.to_dict): identification,
\* size, finishing options and custom text vary
FilenameJobData ==
    { [job_prefix |-> id[1], job_suffix |-> id[2], client |-> c,
       size_w |-> sz[1], size_h |-> sz[2], quantity |-> "1",
       finish |-> opt[1], bleed |-> "None", rotation |-> "None",
       registration |-> "None", grommets |-> "None",
       pole_pockets |-> opt[2], mirror |-> opt[3], custom_text |-> ct] :
        id  \in {<<"TIT", "1234">>, <<"", "">>},
        c   \in {"Client A", "", "Acme  Signs", "B&W", "No"},
        sz  \in {<<"24", "36">>, <<"", " ">>, <<"24", "">>},
        opt \in {<<"None", "None", "No">>, <<"none", "None", "NO">>,
                 <<"Glossy", "Top & Bottom", "Yes">>},
        ct  \in {"", "rush job"} }
    \cup { [client |-> "Client A"] }

\* DEFAULT_CONFIG["order"]
DefaultOrder ==
    << "job_number", "client", "size", "quantity", "finish", "bleed", "rotation",
       "registration", "grommets", "pole_pockets", "mirror", "date", "custom_text" >>

\* config["order"]: the default, rearranged or shortened ones, one with a
\* repeated key and one with a key that is no component
ComponentOrders ==
    { DefaultOrder,
      << "size", "quantity", "client", "job_number" >>,
      << "client", "size", "client" >>,
      << "quantity", "material", "size" >>,
      << >> }

\* the include check boxes: none recorded, all on (DEFAULT_CONFIG), the date
\* off, only the size recorded and off, all off
IncludeFlags ==
    { EmptyDict,
      [k \in PartKeys |-> TRUE],
      [k \in PartKeys |-> k # "date"],
      [k \in {"size"} |-> FALSE],
      [k \in PartKeys |-> FALSE] }

\* FilenameGenerator.generate applied to the arguments drawn
Generate ==
    /\ call.op = "pending" /\ call.fn = "generate"
    /\ call' = [op               |-> "generate",
                job_data         |-> call.job_data,
                components_order |-> call.components_order,
                include_flags    |-> call.include_flags,
                result           |-> generate(call.job_data, call.components_order,
                                              call.include_flags)]
    /\ UNCHANGED <<routing_rules, hotfolder_root, enable_art_copy,
                   client_art_folders, dirs, files>>

----------------------------------------------------------------------------
(* core/filename_generator.py: validate_filename; models/job.py: validate;
   ui/job_setup_tab.py: process_file *)

\* str.upper() on one character
UpperChar(c) ==
    CASE c = "a" -> "A" [] c = "b" -> "B" [] c = "c" -> "C" [] c = "d" -> "D"
      [] c = "e" -> "E" [] c = "f" -> "F" [] c = "g" -> "G" [] c = "h" -> "H"
      [] c = "i" -> "I" [] c = "j" -> "J" [] c = "k" -> "K" [] c = "l" -> "L"
      [] c = "m" -> "M" [] c = "n" -> "N" [] c = "o" -> "O" [] c = "p" -> "P"
      [] c = "q" -> "Q" [] c = "r" -> "R" [] c = "s" -> "S" [] c = "t" -> "T"
      [] c = "u" -> "U" [] c = "v" -> "V" [] c = "w" -> "W" [] c = "x" -> "X"
      [] c = "y" -> "Y" [] c = "z" -> "Z" [] OTHER -> c

RECURSIVE Upper(_)
Upper(s) ==
    IF Len(s) = 0 THEN ""
    ELSE IF Len(s) = 1 THEN UpperChar(s)
    ELSE Upper(SubSeq(s, 1, Len(s) \div 2)) \o Upper(SubSeq(s, Len(s) \div 2 + 1, Len(s)))

\* str.replace(sub, '') for a non-empty sub
RECURSIVE Remove(_, _)
Remove(s, sub) ==
    LET found == {i \in 1..(Len(s) - Len(sub) + 1) : SubSeq(s, i, i + Len(sub) - 1) = sub}
    IN  IF found = {} THEN s
        ELSE LET first == CHOOSE i \in found : \A j \in found : i <= j
             IN  SubSeq(s, 1, first - 1)
                   \o Remove(SubSeq(s, first + Len(sub), Len(s)), sub)

\* invalid_chars of validate_filename, in the order of the string
invalid_chars == << "<", ">", ":", "\"", "/", "\\", "|", "?", "*" >>

\* reserved_names of validate_filename
reserved_names ==
    {"CON", "PRN", "AUX", "NUL"}
    \cup {"COM" \o d : d \in {"1", "2", "3", "4", "5", "6", "7", "8", "9"}}
    \cup {"LPT" \o d : d \in {"1", "2", "3", "4", "5", "6", "7", "8", "9"}}

\* validate_filename that returns at the first check that fails
validate_filename_first_issue_only(filename) ==
    IF filename = "" THEN << "Filename is empty" >>
    ELSE IF filename = default_extension THEN << "Filename contains only extension" >>
    ELSE IF \E i \in DOMAIN invalid_chars : Contains(invalid_chars[i], filename)
    THEN LET first == CHOOSE i \in DOMAIN invalid_chars :
                         /\ Contains(invalid_chars[i], filename)
                         /\ \A j \in 1..(i - 1) : ~Contains(invalid_chars[j], filename)
         IN  << "Contains invalid character: '" \o invalid_chars[first] \o "'" >>
    ELSE IF Len(filename) > 200 THEN << "Filename is too long (>200 characters)" >>
    ELSE IF Upper(Remove(filename, default_extension)) \in reserved_names
    THEN << "'" \o Upper(Remove(filename, default_extension)) \o "' is a reserved filename" >>
    ELSE IF Contains("__", filename)
    THEN << "Contains double underscores (possible missing data)" >>
    ELSE << >>

\* FilenameGenerator.validate_filename(filename): the list of issues
validate_filename(filename) ==
    IF filename = "" THEN << "Filename is empty" >>
    ELSE (IF filename = default_extension
          THEN << "Filename contains only extension" >> ELSE << >>)
         \o SelectSeq([i \in DOMAIN invalid_chars |->
                          IF Contains(invalid_chars[i], filename)
                          THEN "Contains invalid character: '" \o invalid_chars[i] \o "'"
                          ELSE ""],
                      LAMBDA issue : issue # "")
         \o (IF Len(filename) > 200
             THEN << "Filename is too long (>200 characters)" >> ELSE << >>)
         \o (IF Upper(Remove(filename, default_extension)) \in reserved_names
             THEN << "'" \o Upper(Remove(filename, default_extension))
                       \o "' is a reserved filename" >>
             ELSE << >>)
         \o (IF Contains("__", filename)
             THEN << "Contains double underscores (possible missing data)" >>
             ELSE << >>)

\* FilenameGenerator.validate_filename(filename): the tuple returned
validate_filename_result(filename) ==
    LET issues == validate_filename(filename)
    IN  [is_valid |-> IF filename = "" THEN FALSE ELSE Len(issues) = 0,
         issues   |-> issues]

RECURSIVE Repeat(_, _)
Repeat(s, n) ==
    IF n = 0 THEN ""
    ELSE IF n = 1 THEN s
    ELSE Repeat(s, n \div 2) \o Repeat(s, n - n \div 2)

\* file names validate_filename is given besides the generated ones: empty,
\* the bare extension, clean, with forbidden characters, device names in
\* either case, names of 200 and of more than 200 characters
TypedFilenames ==
    { "", ".pdf", "TIT1234_Client_24x36.pdf", "a<b.pdf", "a?b*c.pdf",
      "<>:\"/\\|?*__.pdf", "CON.pdf", "con.pdf", "Lpt9.pdf", "COM0.pdf", "AUX",
      "C.pdfON", "a__b.pdf", "PRN__.pdf", "nul:.pdf",
      Repeat("a", 196) \o ".pdf", Repeat("a", 197) \o ".pdf",
      Repeat("a", 100) \o "__" \o Repeat("b", 100) \o "|.pdf" }

\* FilenameGenerator.validate_filename applied to a name typed in or to the
\* name generate returned (JobSetupTab.update_filename_preview)
ValidateFilename ==
    /\ \/ call.op = "pending" /\ call.fn = "validate_filename"
       \/ call.op = "generate"
    /\ \E filename \in {IF call.op = "generate" THEN call.result ELSE call.filename} :
         call' = [op       |-> "validate_filename",
                  filename |-> filename,
                  result   |-> validate_filename_result(filename)]
    /\ UNCHANGED <<routing_rules, hotfolder_root, enable_art_copy,
                   client_art_folders, dirs, files>>

InitFilename ==
    /\ routing_rules = EmptyDict
    /\ hotfolder_root = << >>
    /\ enable_art_copy = TRUE
    /\ client_art_folders = EmptyDict
    /\ dirs = {}
    /\ files = {}
    /\ call \in { [op |-> "pending", fn |-> "generate", job_data |-> jd,
                   components_order |-> o, include_flags |-> fl] :
                    jd \in FilenameJobData, o \in ComponentOrders, fl \in IncludeFlags }
               \cup { [op |-> "pending", fn |-> "validate_filename", filename |-> f] :
                        f \in TypedFilenames }

NextFilename ==
    \/ Generate
    \/ ValidateFilename

SpecFilename == InitFilename /\ [][NextFilename]_vars

Digits == {"0", "1", "2", "3", "4", "5", "6", "7", "8", "9"}

\* a numeric literal without its sign
Unsigned(s) ==
    IF Len(s) > 0 /\ SubSeq(s, 1, 1) \in {"+", "-"} THEN SubSeq(s, 2, Len(s)) ELSE s

\* float(s) does not raise ValueError: blanks around, a sign, digits with at
\* most one point (exponents, "inf", "nan" and "_" are not among the inputs)
FloatParses(s) ==
    LET u == Unsigned(Strip(s))
    IN  /\ \E i \in 1..Len(u) : SubSeq(u, i, i) \in Digits
        /\ \A i \in 1..Len(u) : SubSeq(u, i, i) \in Digits \cup {"."}
        /\ Cardinality({i \in 1..Len(u) : SubSeq(u, i, i) = "."}) <= 1

\* int(s) does not raise ValueError: blanks around, a sign, digits
IntParses(s) ==
    LET u == Unsigned(Strip(s))
    IN  /\ Len(u) > 0
        /\ \A i \in 1..Len(u) : SubSeq(u, i, i) \in Digits

\* Job.validate(): the list of errors
validate(job) ==
    (IF job.file_path = "" THEN << "No file selected" >> ELSE << >>)
    \o (IF Strip(job.client) = "" THEN << "Client name is required" >> ELSE << >>)
    \o (IF job.printer = "" THEN << "Printer must be selected" >> ELSE << >>)
    \o (IF FloatParses(job.size_w) /\ FloatParses(job.size_h) THEN << >>
        ELSE << "Size dimensions must be numeric" >>)
    \o (IF IntParses(job.quantity) THEN << >> ELSE << "Quantity must be a number" >>)

\* JobSetupTab.get_job_data(): what the job form holds when the file is sent
SubmitForms ==
    { [job_prefix |-> "TIT", job_suffix |-> "1234", client |-> c,
       size_w |-> w, size_h |-> "36", quantity |-> q, printer |-> p,
       print_mode |-> "Roll", ssds_mode |-> "SS", media_group |-> "Vinyl",
       job_type |-> "Standard", bleed |-> "None", registration |-> "None",
       rotation |-> "None", finish |-> "Glossy", grommets |-> "None",
       pole_pockets |-> "None", mirror |-> "No", custom_text |-> "",
       file_path |-> f] :
        c \in {"", "Client A", "A:B", "Acme  Signs"},
        w \in {"24", "abc"}, q \in {"1", "x"}, p \in {"", "Canon"},
        f \in {"", "job.pdf"} }

\* JobSetupTab.process_file(): the checks of the form, the generated name,
\* the question asked about its issues and, if nothing stopped it, the call
\* of RoutingEngine.process_file
SubmitJob ==
    \E form \in SubmitForms, file_exists \in BOOLEAN, continue_anyway \in BOOLEAN,
       hot_fault \in HotfolderFaults, art_fault \in ArtCopyFaults :
      \E has_file \in {form.file_path # "" /\ file_exists} :
      \E errors \in {IF has_file THEN validate(form) ELSE << >>} :
      \E filename \in {IF has_file /\ errors = << >>
                       THEN generate(form, DefaultOrder, [k \in PartKeys |-> TRUE])
                       ELSE ""} :
      \E issues \in {IF has_file /\ errors = << >>
                     THEN validate_filename(filename) ELSE << >>} :
      \E invoked \in {has_file /\ errors = << >>
                        /\ (issues = << >> \/ continue_anyway)} :
        \* one transition for each outcome that differs
        /\ (invoked \/ (hot_fault = "none" /\ art_fault = "none"))
        /\ (issues # << >> \/ continue_anyway)
        /\ (form.file_path # "" \/ file_exists)
        /\ IF invoked
           THEN \E steps \in {process_steps(filename, form, hot_fault, art_fault)} :
                  /\ dirs' = dirs \cup steps[1].out.made
                  /\ files' = files \cup steps[1].out.copied
                                \cup (IF Len(steps) > 1 THEN steps[2].out.copied ELSE {})
                  /\ routing_rules' = steps[1].out.rules
                  /\ call' = [op       |-> "submit",
                              form     |-> form,
                              has_file |-> has_file,
                              errors   |-> errors,
                              filename |-> filename,
                              issues   |-> issues,
                              invoked  |-> TRUE,
                              result   |-> process_file(filename, steps)]
           ELSE /\ UNCHANGED <<dirs, files, routing_rules>>
                /\ call' = [op       |-> "submit",
                            form     |-> form,
                            has_file |-> has_file,
                            errors   |-> errors,
                            filename |-> filename,
                            issues   |-> issues,
                            invoked  |-> FALSE,
                            result   |-> [success |-> PyNone]]
        /\ UNCHANGED <<hotfolder_root, enable_art_copy, client_art_folders>>

\* a configuration with the hotfolder root set and "Client A" mapped to its
\* art folder; the folders exist or only the root does
InitSubmit ==
    /\ routing_rules \in LoadedRules
    /\ hotfolder_root = HotRoot
    /\ enable_art_copy = TRUE
    /\ client_art_folders = [c \in {"Client A"} |-> ArtFolderA]
    /\ dirs \in { {HotRoot, <<"hot", "Canon">>, <<"art">>, ArtFolderA},
                  {HotRoot, <<"art">>} }
    /\ files = {}
    /\ call = [op |-> "none"]

NextSubmit ==
    \/ SubmitJob

SpecSubmit == InitSubmit /\ [][NextSubmit]_vars

----------------------------------------------------------------------------
(* What the claims say about stored rule records and jobs *)

\* the criteria a stored record requires; a record without the key requires none
StoredCriteria(data) == IF "criteria" \in data.present THEN data.criteria ELSE EmptyDict

\* the priority of a stored record, Normal when it names none
StoredPriority(data) == IF "priority" \in data.present THEN data.priority ELSE "Normal"

StoredTarget(data) == IF "target_folder" \in data.present THEN data.target_folder ELSE ""

\* High=3, Normal=2, Low=1
PriorityWeight(p) == CASE p = "High" -> 3 [] p = "Normal" -> 2 [] p = "Low" -> 1

\* subset test: every required key is in the job's derived criteria with the same value
IsSubsetOf(criteria, job_criteria) ==
    \A k \in DOMAIN criteria : k \in DOMAIN job_criteria /\ job_criteria[k] = criteria[k]

\* the positions (from 1) of the records of `rules` that match `job`
MatchingPositions(rules, job) ==
    { i \in DOMAIN rules :
        /\ DOMAIN StoredCriteria(rules[i]) # {}
        /\ IsSubsetOf(StoredCriteria(rules[i]), get_routing_criteria(job)) }

\* the matching record that wins: greatest weight, earliest among equals
Winner(rules, job) ==
    LET M == MatchingPositions(rules, job)
        w(i) == PriorityWeight(StoredPriority(rules[i]))
    IN  CHOOSE i \in M : \A j \in M : w(i) > w(j) \/ (w(i) = w(j) /\ i <= j)

----------------------------------------------------------------------------
(* Claims *)

\* C1: when two or more rules match, determine_target_folder returns the
\* target of the matching rule with the greatest priority weight, and among
\* rules of that weight the one first in configured order, whatever the
\* number of criteria of each rule.
C1_GreatestWeightFirstInOrderWins ==
    (call.op = "determine_target_folder"
        /\ Cardinality(MatchingPositions(call.rules, call.job)) >= 2)
    => call.result = StoredTarget(call.rules[Winner(call.rules, call.job)])

\* two rules match, the later one outranks the earlier one although it has
\* fewer criteria, and its target is returned
C1_Witness ==
    /\ call.op = "determine_target_folder"
    /\ Len(call.rules) >= 2
    /\ {1, 2} \subseteq MatchingPositions(call.rules, call.job)
    /\ PriorityWeight(StoredPriority(call.rules[2]))
         > PriorityWeight(StoredPriority(call.rules[1]))
    /\ Cardinality(DOMAIN StoredCriteria(call.rules[2]))
         < Cardinality(DOMAIN StoredCriteria(call.rules[1]))
    /\ StoredTarget(call.rules[2]) # StoredTarget(call.rules[1])
    /\ call.result = StoredTarget(call.rules[2])

\* C2: a rule with non-empty criteria matches a job exactly when every key of
\* its criteria is in the job's derived criteria with the same value, and the
\* answer is the same for every job whose derived criteria agree with this
\* job's on the keys the rule mentions.
C2_MatchIsSubsetTest ==
    (call.op = "matches_job" /\ DOMAIN call.rule.criteria # {})
    => /\ call.result
            <=> IsSubsetOf(call.rule.criteria, get_routing_criteria(call.job))
       /\ \A other \in MatchJobs :
            (\A k \in DOMAIN call.rule.criteria :
                DictGet(get_routing_criteria(other), k, PyNone)
                  = DictGet(get_routing_criteria(call.job), k, PyNone))
            => matches_job(call.rule, other) = call.result

\* a rule with two criteria matches a job whose derived criteria hold more keys
C2_Witness ==
    /\ call.op = "matches_job"
    /\ call.result
    /\ Cardinality(DOMAIN call.rule.criteria) >= 2
    /\ DOMAIN get_routing_criteria(call.job) \ DOMAIN call.rule.criteria # {}

\* C3: a rule with empty criteria never is among the matching rules and never
\* provides the target, whatever its priority and its position in the list.
C3_EmptyCriteriaNeverMatch ==
    /\ call.op = "test_job_routing" =>
         \A n \in DOMAIN call.result.matching_rules :
            DOMAIN StoredCriteria(
                call.rules[call.result.matching_rules[n].index + 1]) # {}
    /\ (call.op \in {"determine_target_folder", "test_job_routing"}
          /\ \A i \in DOMAIN call.rules : DOMAIN StoredCriteria(call.rules[i]) = {})
       => (IF call.op = "test_job_routing" THEN call.result.target_folder
           ELSE call.result) = PyNone
    /\ (call.op = "determine_target_folder" /\ call.result # PyNone)
       => \E i \in DOMAIN call.rules :
            /\ DOMAIN StoredCriteria(call.rules[i]) # {}
            /\ StoredTarget(call.rules[i]) = call.result

\* an empty-criteria rule of High priority stands first, a Low rule behind it
\* matches, and the Low rule alone is reported and provides the target
C3_Witness ==
    /\ call.op = "test_job_routing"
    /\ Len(call.rules) >= 2
    /\ DOMAIN StoredCriteria(call.rules[1]) = {}
    /\ StoredPriority(call.rules[1]) = "High"
    /\ StoredPriority(call.rules[2]) = "Low"
    /\ Len(call.result.matching_rules) = 1
    /\ call.result.matching_rules[1].index = 1
    /\ call.result.target_folder = StoredTarget(call.rules[2])
    /\ StoredTarget(call.rules[2]) # StoredTarget(call.rules[1])

\* C4: determine_target_folder returns None when the printer has no rules,
\* when no rule's criteria subset-match the job, or when the only candidates
\* have empty criteria; a folder it returns is the target of a matching rule.
C4_NoneUnlessARuleMatches ==
    call.op = "determine_target_folder"
    => /\ MatchingPositions(call.rules, call.job) = {} => call.result = PyNone
       /\ call.result # PyNone
            => \E i \in MatchingPositions(call.rules, call.job) :
                    StoredTarget(call.rules[i]) = call.result

\* the printer has rules, one of them with criteria the job does not satisfy,
\* and the result is None
C4_Witness ==
    /\ call.op = "determine_target_folder"
    /\ \E i \in DOMAIN call.rules : DOMAIN StoredCriteria(call.rules[i]) # {}
    /\ call.result = PyNone

\* C5: the derived criteria hold exactly the ten base keys whose job value is
\* not "", "None" or "No", each with the job's value, and SSDS Mode (with a
\* value that is none of these) exactly when the print mode is Flatbed.
C5_DerivedCriteria ==
    call.op = "get_routing_criteria"
    => /\ DOMAIN call.result \subseteq BaseCriteriaKeys \cup {"SSDS Mode"}
       /\ \A k \in BaseCriteriaKeys :
            /\ k \in DOMAIN call.result
                 <=> JobAttribute(call.job, k) \notin {"", "None", "No"}
            /\ k \in DOMAIN call.result => call.result[k] = JobAttribute(call.job, k)
       /\ "SSDS Mode" \in DOMAIN call.result
            <=> (call.job.print_mode = "Flatbed"
                   /\ call.job.ssds_mode \notin {"", "None", "No"})
       /\ "SSDS Mode" \in DOMAIN call.result
            => call.result["SSDS Mode"] = call.job.ssds_mode

\* a Flatbed job with mirror "No" and bleed "None": SSDS Mode is derived,
\* Mirror and Bleed are not
C5_Witness ==
    /\ call.op = "get_routing_criteria"
    /\ call.job.print_mode = "Flatbed"
    /\ call.job.mirror = "No"
    /\ call.job.bleed = "None"
    /\ "SSDS Mode" \in DOMAIN call.result
    /\ "Mirror" \notin DOMAIN call.result
    /\ "Bleed" \notin DOMAIN call.result
    /\ "Finish" \in DOMAIN call.result

\* C6: determine_target_folder, test_job_routing and analyze_routing_setup
\* leave the rule sequence of every printer as it was: same order, same
\* keys and values in every rule record.
C6_RulesReadOnly ==
    [][call'.op \in {"determine_target_folder", "test_job_routing",
                     "analyze_routing_setup"}
         => routing_rules' = routing_rules]_vars

\* C7: test_job_routing touches no directory and no file; matching_rules
\* lists exactly the matching rules of the job's printer, each once, in
\* configured order, with index, criteria and priority; target_folder is what
\* determine_target_folder returns and success tells whether that is not None.
C7_DryRunReport ==
    [][call'.op = "test_job_routing"
         => /\ dirs' = dirs /\ files' = files
            /\ LET M   == MatchingPositions(call'.rules, call'.job)
                   rep == call'.result.matching_rules
               IN  /\ Len(rep) = Cardinality(M)
                   /\ \A n \in DOMAIN rep :
                        /\ rep[n].index + 1 \in M
                        /\ n > 1 => rep[n - 1].index < rep[n].index
                        /\ rep[n].criteria = StoredCriteria(call'.rules[rep[n].index + 1])
                        /\ rep[n].priority = StoredPriority(call'.rules[rep[n].index + 1])
                        /\ rep[n].target_folder = StoredTarget(call'.rules[rep[n].index + 1])
            /\ call'.result.target_folder =
                  (IF MatchingPositions(call'.rules, call'.job) = {} THEN PyNone
                   ELSE StoredTarget(call'.rules[Winner(call'.rules, call'.job)]))
            /\ call'.result.success <=> call'.result.target_folder # PyNone]_vars

\* two rules match, both are reported in configured order, and the second,
\* of higher priority, provides the target
C7_Witness ==
    /\ call.op = "test_job_routing"
    /\ Len(call.result.matching_rules) = 2
    /\ call.result.matching_rules[1].index = 0
    /\ call.result.matching_rules[2].index = 1
    /\ call.result.success
    /\ call.result.target_folder = call.result.matching_rules[2].target_folder
    /\ call.result.target_folder # call.result.matching_rules[1].target_folder

\* C8: the overall success of process_file is true exactly when the
\* hotfolder sub-result or the art-copy sub-result has success true.
C8_OverallSuccess ==
    call.op = "process_file"
    => (call.result.success = "True"
          <=> (call.result.hotfolder.success = "True"
                 \/ call.result.art_copy.success = "True"))

\* the file reached the hotfolder, the art copy failed, and the overall
\* success is true
C8_Witness ==
    /\ call.op = "process_file"
    /\ call.result.hotfolder.success = "True"
    /\ call.result.art_copy.success = "False"
    /\ call.result.success = "True"

\* C9: process_file always runs the hotfolder step first and reports what it
\* returned; it runs the art-copy step exactly when art copy is enabled,
\* whether or not the hotfolder step succeeded, and reports what it returned.
C9_StepsIndependent ==
    call.op = "process_file"
    => /\ call.steps[1].step = "route_to_hotfolder"
       /\ call.result.hotfolder = call.steps[1].returned
       /\ enable_art_copy
            => /\ Len(call.steps) = 2
               /\ call.steps[2].step = "copy_to_client_art_folder"
               /\ call.result.art_copy = call.steps[2].returned
       /\ ~enable_art_copy => Len(call.steps) = 1

\* the hotfolder step failed, the art-copy step ran all the same and succeeded
C9_Witness ==
    /\ call.op = "process_file"
    /\ Len(call.steps) = 2
    /\ call.result.hotfolder.success = "False"
    /\ call.result.art_copy.success = "True"
    /\ ArtFolderA \in {SubSeq(f, 1, Len(f) - 1) : f \in files}

\* the other outcomes of the two steps
C9_BothSucceed ==
    /\ call.op = "process_file"
    /\ call.result.hotfolder.success = "True"
    /\ call.result.art_copy.success = "True"

C9_BothFail ==
    /\ call.op = "process_file"
    /\ call.result.hotfolder.success = "False"
    /\ call.result.art_copy.success = "False"

\* C10: when the hotfolder root is unset or missing, or the printer's folder
\* under it is missing, the hotfolder step fails with an error, copies
\* nothing and creates no directory; and every directory a process_file call
\* creates is a sub-folder of a printer folder that already existed.
C10_NoPrinterFolderCreated ==
    [][call'.op = "process_file"
         => LET printer_path ==
                    Append(hotfolder_root, get_printer_folder_name(call'.job.printer))
                hot == call'.result.hotfolder
            IN  /\ (hotfolder_root = << >> \/ hotfolder_root \notin dirs
                      \/ printer_path \notin dirs)
                   => /\ hot.success = "False"
                      /\ hot.error # PyNone
                      /\ dirs' = dirs
                      /\ \A f \in files' \ files :
                            /\ call'.job.client \in DOMAIN client_art_folders
                            /\ f = Append(client_art_folders[call'.job.client],
                                          call'.filename)
                /\ \A d \in dirs' \ dirs :
                      /\ Len(d) = Len(hotfolder_root) + 2
                      /\ SubSeq(d, 1, Len(hotfolder_root)) = hotfolder_root
                      /\ SubSeq(d, 1, Len(d) - 1) \in dirs]_vars

\* the root exists, the printer's folder does not: the step failed with the
\* error and nothing is found under the root
C10_Witness ==
    /\ call.op = "process_file"
    /\ hotfolder_root # << >>
    /\ hotfolder_root \in dirs
    /\ Append(hotfolder_root, get_printer_folder_name(call.job.printer)) \notin dirs
    /\ call.result.hotfolder.success = "False"
    /\ call.result.hotfolder.error = "Printer folder doesn't exist"
    /\ \A f \in files : SubSeq(f, 1, Len(hotfolder_root)) # hotfolder_root

\* the configuration key of the printer displayed as p, p itself if there is none
PrinterFolderOf(p) ==
    LET keys == {i \in DOMAIN printers :
                    (IF printers[i].has_display_name THEN printers[i].display_name
                     ELSE printers[i].folder_name) = p}
    IN  IF keys = {} THEN p
        ELSE printers[CHOOSE i \in keys : \A j \in keys : i <= j].folder_name

\* the target sub-folder of a job: the winning rule's, "Default" without a match
TargetFolderOf(rules, job) ==
    IF MatchingPositions(rules, job) = {} THEN "Default"
    ELSE StoredTarget(rules[Winner(rules, job)])

C11_TargetFolderExisted ==
    /\ call.op = "process_file"
    /\ call.result.hotfolder.success = "True"
    /\ call.result.hotfolder.path = << "hot", "Canon", "A" >>
    /\ << "hot", "Canon", "B" >> \notin dirs

\* the files found in the art folder of the job's client
ArtFolderFiles(job) ==
    IF job.client \in DOMAIN client_art_folders
    THEN {f \in files : SubSeq(f, 1, Len(f) - 1) = client_art_folders[job.client]}
    ELSE {}

\* C12: with art copy disabled in the configuration, process_file reports
\* art_copy.success = None (no path, no error) and copies nothing into an art
\* folder, whatever the job, the client mapping and the hotfolder outcome.
C12_ArtCopyDisabled ==
    (call.op = "process_file" /\ ~enable_art_copy)
    => /\ call.result.art_copy = [success |-> PyNone, path |-> NoPath, error |-> PyNone]
       /\ \A c \in DOMAIN client_art_folders :
             \A f \in files : SubSeq(f, 1, Len(f) - 1) # client_art_folders[c]

\* art copy is disabled while the client is mapped to an existing art folder
\* and the hotfolder step succeeded: no art copy was reported or made
C12_Witness ==
    /\ call.op = "process_file"
    /\ ~enable_art_copy
    /\ call.job.client \in DOMAIN client_art_folders
    /\ client_art_folders[call.job.client] \in dirs
    /\ call.result.hotfolder.success = "True"
    /\ call.result.art_copy.success = PyNone
    /\ ArtFolderFiles(call.job) = {}

\* the files a process_file call may leave in the hotfolder: the one the
\* hotfolder step reports
HotfolderCopies(c) ==
    IF c.result.hotfolder.success = "True"
    THEN {Append(c.result.hotfolder.path, c.filename)} ELSE {}

\* C13: with art copy enabled, when the job's client is empty or blank, or
\* has no entry in the client-art-folder mapping, the art-copy step copies
\* nothing and reports success = None, with no path and no error.
C13_NoClientOrNoMappingSkips ==
    [][(/\ call'.op = "process_file"
        /\ enable_art_copy
        /\ \/ IsBlank(call'.job.client)
           \/ call'.job.client \notin DOMAIN client_art_folders)
         => /\ call'.result.art_copy =
                  [success |-> PyNone, path |-> NoPath, error |-> PyNone]
            /\ files' \ files \subseteq HotfolderCopies(call')]_vars

\* a client without a mapping, while another client is mapped to an existing
\* folder: the step reported None and the art folder stayed empty
C13_Witness ==
    /\ call.op = "process_file"
    /\ enable_art_copy
    /\ call.job.client = "Client B"
    /\ DOMAIN client_art_folders = {"Client A"}
    /\ ArtFolderA \in dirs
    /\ call.result.art_copy.success = PyNone
    /\ \A f \in files : SubSeq(f, 1, Len(f) - 1) # ArtFolderA

\* the job's client is blank: the step reported None
C13_BlankClient ==
    /\ call.op = "process_file"
    /\ enable_art_copy
    /\ call.job.client = "  "
    /\ call.result.art_copy.success = PyNone

\* the job's client is empty: the step reported None
C13_EmptyClient ==
    /\ call.op = "process_file"
    /\ enable_art_copy
    /\ call.job.client = ""
    /\ call.result.art_copy.success = PyNone

\* the outcome C14 describes when the art-copy step fails
ArtCopyFailed(c) ==
    /\ c.result.art_copy.success = "False"
    /\ c.result.art_copy.error \notin {PyNone, ""}
    /\ c.result.art_copy.path = NoPath

\* the outcome C14 describes when the art-copy step copies into `folder`
ArtCopySucceeded(c, folder) ==
    c.result.art_copy = [success |-> "True", path |-> folder, error |-> PyNone]

\* C14 as stated: with art copy enabled and the job's client mapped, the step
\* fails (success = False, an error message, nothing copied) when the mapped
\* folder does not exist or the copy raises a permission error, and in every
\* other case copies to <client_art_folder>/<filename> and reports True.
C14_FailsOnlyOnMissingFolderOrPermission ==
    [][(/\ call'.op = "process_file"
        /\ enable_art_copy
        /\ ~IsBlank(call'.job.client)
        /\ call'.job.client \in DOMAIN client_art_folders)
         => LET folder == client_art_folders[call'.job.client]
            IN  IF folder \notin dirs \/ call'.raised.art_copy = "PermissionError"
                THEN /\ ArtCopyFailed(call')
                     /\ files' \ files \subseteq HotfolderCopies(call')
                ELSE /\ ArtCopySucceeded(call', folder)
                     /\ Append(folder, call'.filename) \in files']_vars

\* C14, amended: with art copy enabled and the job's client mapped, the step
\* fails (success = False, an error message, nothing copied) when the mapped
\* folder does not exist or the copy raises any exception, a permission error
\* or another; otherwise it copies to <client_art_folder>/<filename> and
\* reports True with that folder as path.
C14_FailsOnMissingFolderOrAnyException ==
    [][(/\ call'.op = "process_file"
        /\ enable_art_copy
        /\ ~IsBlank(call'.job.client)
        /\ call'.job.client \in DOMAIN client_art_folders)
         => LET folder == client_art_folders[call'.job.client]
            IN  IF folder \notin dirs \/ call'.raised.art_copy # "none"
                THEN /\ ArtCopyFailed(call')
                     /\ files' \ files \subseteq HotfolderCopies(call')
                ELSE /\ ArtCopySucceeded(call', folder)
                     /\ Append(folder, call'.filename) \in files']_vars

\* the mapped folder exists and the copy raised an exception that is not a
\* permission error: the step reported False and the art folder stayed empty
C14_Witness ==
    /\ call.op = "process_file"
    /\ enable_art_copy
    /\ call.job.client \in DOMAIN client_art_folders
    /\ client_art_folders[call.job.client] \in dirs
    /\ call.raised.art_copy = "OSError"
    /\ call.result.art_copy.success = "False"
    /\ call.result.art_copy.error = "Art folder copy failed"
    /\ ArtFolderFiles(call.job) = {}

\* the other cases of the art-copy step: folder missing, permission error, copy
C14_FolderMissing ==
    /\ call.op = "process_file"
    /\ call.result.art_copy.error = "Client art folder doesn't exist"

C14_PermissionError ==
    /\ call.op = "process_file"
    /\ call.result.art_copy.error = "Permission denied accessing art folder"

C14_Copied ==
    /\ call.op = "process_file"
    /\ call.result.art_copy.success = "True"
    /\ Append(ArtFolderA, call.filename) \in files

\* a sub-result that reports a failure: success False with an error message
ReportsFailure(sub) ==
    /\ sub.success = "False"
    /\ sub.error \notin {PyNone, ""}

\* where the hotfolder step of a call has to put the file
HotfolderDestination(rules, job, filename) ==
    << Append(hotfolder_root, PrinterFolderOf(job.printer)),
       TargetFolderOf(get_routing_rules(rules, job.printer), job),
       filename >>

\* C15: process_file always returns the structured result {success,
\* hotfolder, art_copy}.  A step that did not deliver the file - the root, the
\* printer folder or the art folder is missing, or makedirs or copy raised -
\* reports success = False with an error message; each step runs at most once
\* per call, and a step that failed has copied nothing.
C15_FailuresAreReportedNotRaised ==
    [][call'.op = "process_file"
         => LET c     == call'
                hot   == c.result.hotfolder
                art   == c.result.art_copy
                dest  == HotfolderDestination(routing_rules, c.job, c.filename)
                hfile == Append(Append(dest[1], dest[2]), dest[3])
                mapped == enable_art_copy /\ ~IsBlank(c.job.client)
                            /\ c.job.client \in DOMAIN client_art_folders
            IN  /\ {"success", "hotfolder", "art_copy"} \subseteq DOMAIN c.result
                /\ hot.success \in {"True", "False"}
                /\ art.success \in {"True", "False", PyNone}
                \* the hotfolder step
                /\ (\/ hotfolder_root = << >> \/ hotfolder_root \notin dirs
                    \/ dest[1] \notin dirs
                    \/ c.raised.hotfolder # "none"
                    \/ hfile \notin files')
                   => ReportsFailure(hot) /\ hot.path = NoPath
                /\ ReportsFailure(hot) => hfile \notin files' \ files
                \* the art-copy step
                /\ mapped
                   => /\ (\/ client_art_folders[c.job.client] \notin dirs
                          \/ c.raised.art_copy # "none"
                          \/ Append(client_art_folders[c.job.client], c.filename)
                                \notin files')
                         => ReportsFailure(art) /\ art.path = NoPath
                      /\ ReportsFailure(art)
                         => Append(client_art_folders[c.job.client], c.filename)
                               \notin files' \ files
                \* no retry
                /\ Len(c.steps) <= 2
                /\ \A i, j \in DOMAIN c.steps : i # j => c.steps[i].step # c.steps[j].step]_vars

\* makedirs raised in the hotfolder step and the copy raised in the art-copy
\* step: both sub-results report the failure and nothing was copied
C15_Witness ==
    /\ call.op = "process_file"
    /\ call.raised.hotfolder = "makedirs"
    /\ call.raised.art_copy = "OSError"
    /\ ReportsFailure(call.result.hotfolder)
    /\ ReportsFailure(call.result.art_copy)
    /\ call.result.success = "False"
    /\ files = {}

\* the copy of the hotfolder step raised after the target folder was made
C15_CopyRaised ==
    /\ call.op = "process_file"
    /\ call.raised.hotfolder = "copy"
    /\ ReportsFailure(call.result.hotfolder)
    /\ files = {}

----------------------------------------------------------------------------
(* What the claims say about generated filenames *)

\* the resolved value of a component: job number, size, quantity, date, or
\* the trimmed field; empty for a key that is no component
ComponentValue(job_data, k) == DictGet(build_parts_map(job_data), k, "")

\* the include flag of a component is true or absent
Included(include_flags, k) == k \notin DOMAIN include_flags \/ include_flags[k]

\* a value with every space turned into "_" and every "&" into "and"
RECURSIVE Cleaned(_)
Cleaned(v) ==
    IF v = "" THEN ""
    ELSE LET c == SubSeq(v, 1, 1)
         IN  (CASE c = " " -> "_" [] c = "&" -> "and" [] OTHER -> c)
             \o Cleaned(SubSeq(v, 2, Len(v)))

\* the strings of a sequence with one "_" between neighbours
RECURSIVE Underscored(_)
Underscored(parts) ==
    IF parts = << >> THEN ""
    ELSE IF Len(parts) = 1 THEN parts[1]
    ELSE Underscored(SubSeq(parts, 1, Len(parts) - 1)) \o "_" \o parts[Len(parts)]

\* a component survives: included, value non-empty and not "none" or "no" in
\* any case; with bare_x_dropped, a size of just "x" does not survive either
Survives(job_data, include_flags, k, bare_x_dropped) ==
    LET v == ComponentValue(job_data, k)
    IN  /\ Included(include_flags, k)
        /\ v # ""
        /\ Lower(v) \notin {"none", "no"}
        /\ ~(bare_x_dropped /\ k = "size" /\ v = "x")

\* the cleaned values of the surviving components, in the order of the keys
RECURSIVE SurvivingParts(_, _, _, _)
SurvivingParts(job_data, order, include_flags, bare_x_dropped) ==
    IF order = << >> THEN << >>
    ELSE (IF Survives(job_data, include_flags, Head(order), bare_x_dropped)
          THEN << Cleaned(ComponentValue(job_data, Head(order))) >> ELSE << >>)
         \o SurvivingParts(job_data, Tail(order), include_flags, bare_x_dropped)

\* the filename made of the parts, "untitled.pdf" without any
NameOf(parts) ==
    IF parts = << >> THEN "untitled.pdf" ELSE Underscored(parts) \o ".pdf"

\* a field of the job data after trimming, empty when the field is missing
Field(job_data, k) == Strip(DictGet(job_data, k, ""))

\* C17: a filename generate returns holds no "__" when every included
\* component of the order has a non-empty value.
C17_NoDoubleUnderscore ==
    (/\ call.op = "generate"
     /\ \A i \in DOMAIN call.components_order :
           Included(call.include_flags, call.components_order[i])
             => ComponentValue(call.job_data, call.components_order[i]) # "")
    => ~Contains("__", call.result)

\* no finishing option is set ("None"/"No" everywhere) and the custom text is empty
NoFinishingOptions(job_data) ==
    /\ \A k \in {"finish", "bleed", "rotation", "registration", "grommets",
                 "pole_pockets", "mirror"} :
          Lower(Field(job_data, k)) \in {"none", "no"}
    /\ Field(job_data, "custom_text") = ""

IdentifyingComponents == {"job_number", "client", "size", "quantity"}

\* the filename ends in ".pdf" and is made of the job number, client, size
\* and quantity components, and the date if included, in the order of the
\* keys, with one "_" between neighbours
IdentifyingName(job_data, order, include_flags, filename) ==
    LET keys == SelectSeq(order, LAMBDA k : k \in IdentifyingComponents
                                              \/ (k = "date" /\ Included(include_flags, k)))
    IN  /\ \A k \in IdentifyingComponents : \E i \in DOMAIN keys : keys[i] = k
        /\ filename = Underscored([i \in DOMAIN keys |->
                                     Cleaned(ComponentValue(job_data, keys[i]))]) \o ".pdf"

\* C18 as stated, under the default order with every component included:
\* for every job without finishing options and custom text, the filename
\* holds the job number, client, size and quantity components joined by
\* single underscores and ends in ".pdf".
C18_EveryJobHasIdentifyingName ==
    (/\ call.op = "generate"
     /\ call.components_order = DefaultOrder
     /\ \A k \in PartKeys : Included(call.include_flags, k)
     /\ NoFinishingOptions(call.job_data))
    => /\ \A k \in IdentifyingComponents :
             Survives(call.job_data, call.include_flags, k, TRUE)
       /\ IdentifyingName(call.job_data, call.components_order, call.include_flags,
                          call.result)

\* C18, amended: for every job without finishing options and custom text
\* whose job number, client and size components survive (non-empty, not
\* "none"/"no", size not "x"), under an order that lists job number, client,
\* size and quantity without excluding them, the filename holds those
\* components joined by single underscores and ends in ".pdf".
C18_JobWithIdentificationHasIdentifyingName ==
    (/\ call.op = "generate"
     /\ NoFinishingOptions(call.job_data)
     /\ \A k \in IdentifyingComponents :
           /\ \E i \in DOMAIN call.components_order : call.components_order[i] = k
           /\ Survives(call.job_data, call.include_flags, k, TRUE))
    => IdentifyingName(call.job_data, call.components_order, call.include_flags,
                       call.result)

\* a job without finishing options for the client "B&W" under the default
\* order, no flag recorded
C18_Witness ==
    /\ call.op = "generate"
    /\ NoFinishingOptions(call.job_data)
    /\ call.components_order = DefaultOrder
    /\ call.include_flags = EmptyDict
    /\ call.result = "TIT1234_BandW_24x36_QTY1_11-04-26.pdf"

\* C19 as stated: the filename is made of the components whose include flag
\* is true or absent and whose value is non-empty and not "none" or "no" in
\* any case, each with spaces as "_" and "&" as "and", joined by "_" in the
\* order of components_order, followed by ".pdf"; "untitled.pdf" if there is
\* none.
C19_NameOfSurvivors ==
    call.op = "generate"
    => call.result = NameOf(SurvivingParts(call.job_data, call.components_order,
                                           call.include_flags, FALSE))

\* C19, amended: the same, where a size component that resolves to just "x"
\* does not survive either.
C19_NameOfSurvivorsWithoutBareX ==
    call.op = "generate"
    => call.result = NameOf(SurvivingParts(call.job_data, call.components_order,
                                           call.include_flags, TRUE))

\* both size fields are blank and the size is included: the name is made of
\* the other components, "&" spelled out
C19_Witness ==
    /\ call.op = "generate"
    /\ ComponentValue(call.job_data, "size") = "x"
    /\ call.components_order = DefaultOrder
    /\ call.include_flags = [k \in PartKeys |-> k # "date"]
    /\ call.result = "TIT1234_BandW_QTY1.pdf"

\* no component survives
C19_Untitled ==
    /\ call.op = "generate"
    /\ call.components_order # << >>
    /\ \E k \in PartKeys : Included(call.include_flags, k)
    /\ call.result = "untitled.pdf"

\* a key occurs twice in the order, and so does its component in the name
C19_RepeatedKey ==
    /\ call.op = "generate"
    /\ call.result = "Client_A_24x36_Client_A.pdf"

\* C20: when both size fields are blank, so that the size resolves to "x",
\* the filename is the one of the same order without the size key, whatever
\* the include flags and wherever the size stands in the order.
C20_BareXSizeOmitted ==
    (/\ call.op = "generate"
     /\ Field(call.job_data, "size_w") = ""
     /\ Field(call.job_data, "size_h") = "")
    => /\ ComponentValue(call.job_data, "size") = "x"
       /\ call.result =
             NameOf(SurvivingParts(call.job_data,
                                   SelectSeq(call.components_order,
                                             LAMBDA k : k # "size"),
                                   call.include_flags, FALSE))

\* the size stands first in the order and is included, both fields are
\* blank: the name starts with the quantity
C20_Witness ==
    /\ call.op = "generate"
    /\ Field(call.job_data, "size_w") = ""
    /\ Field(call.job_data, "size_h") = ""
    /\ call.components_order = << "size", "quantity", "client", "job_number" >>
    /\ call.include_flags = [k \in PartKeys |-> TRUE]
    /\ call.result = "QTY1_Client_A_TIT1234.pdf"

\* the size stands last in the order and no flag is recorded
C20_SizeLast ==
    /\ call.op = "generate"
    /\ Field(call.job_data, "size_w") = ""
    /\ Field(call.job_data, "size_h") = ""
    /\ call.components_order = << "quantity", "material", "size" >>
    /\ call.include_flags = EmptyDict
    /\ call.result = "QTY1.pdf"

\* C16: in the job-submission flow, whenever Job.validate reports an error or
\* validate_filename reports an issue, RoutingEngine.process_file is not
\* invoked, no file is copied and no directory is created.
C16_ValidationBlocksProcessing ==
    [][(/\ call'.op = "submit"
        /\ (call'.errors # << >> \/ call'.issues # << >>))
         => /\ ~call'.invoked
            /\ dirs' = dirs
            /\ files' = files]_vars

\* Job.validate reported errors: the engine was not invoked
C16_JobErrorsBlock ==
    /\ call.op = "submit"
    /\ Len(call.errors) = 4
    /\ ~call.invoked
    /\ files = {}

\* validate_filename reported the double underscore and the file was
\* processed all the same
C16_ProcessedDespiteIssue ==
    /\ call.op = "submit"
    /\ call.issues = << "Contains double underscores (possible missing data)" >>
    /\ call.invoked
    /\ call.result.hotfolder.success = "True"
    /\ << "hot", "Canon", "Default", call.filename >> \in files

----------------------------------------------------------------------------
(* process_file on configuration documents whose rule records may lack a
   target folder *)

\* rule sequences of a loaded configuration document: those of LoadedRules,
\* and ones with a matching rule whose "target_folder" is missing or empty
\* (load_config and add_routing_rule store a record as it is given)
StoredRules ==
    LoadedRules
    \cup { [p \in {"Canon"} |->
              << RuleRecord({"criteria", "priority"}, "", "High", CriteriaMatte),
                 RuleRecord(RuleKeys, "A", "Low", CriteriaMatte) >>],
           [p \in {"Canon", "S60"} |->
              IF p = "Canon"
              THEN << RuleRecord(RuleKeys, "B", "Normal", CriteriaMatte) >>
              ELSE << RuleRecord(RuleKeys, "", "Normal", CriteriaMatte) >>] }

InitStoredRules ==
    /\ routing_rules \in StoredRules
    /\ hotfolder_root \in {<< >>, HotRoot}
    /\ enable_art_copy \in BOOLEAN
    /\ client_art_folders \in {EmptyDict, [c \in {"Client A"} |-> ArtFolderA]}
    /\ dirs \in InitialDirs
    /\ files = {}
    /\ call = [op |-> "none"]

NextStoredRules ==
    \/ ProcessFile

SpecStoredRules == InitStoredRules /\ [][NextStoredRules]_vars

----------------------------------------------------------------------------
(* config/manager.py: load_config, set, update, add_routing_rule on the
   configuration dict; config/constants.py: DEFAULT_CONFIG *)

\* the keys of DEFAULT_CONFIG that the core reads
ConfigKeys == {"routing_rules", "client_art_folders", "hotfolder_root", "enable_art_copy"}

\* DEFAULT_CONFIG as constants.py builds it
DEFAULT_CONFIG ==
    [k \in ConfigKeys |->
        CASE k = "routing_rules"      -> EmptyDict
          [] k = "client_art_folders" -> EmptyDict
          [] k = "hotfolder_root"     -> NoPath
          [] k = "enable_art_copy"    -> TRUE]

\* the keys of DEFAULT_CONFIG whose value is a dict object: dict.copy() is
\* shallow, so the copy's entry is the very object DEFAULT_CONFIG holds
DictValuedKeys == {"routing_rules", "client_art_folders"}

\* dict.update(updates) / config[key] = value: the dict afterwards
update(config, updates) ==
    [k \in DOMAIN config \cup DOMAIN updates |->
        IF k \in DOMAIN updates THEN updates[k] ELSE config[k]]

\* load_config whose merge lets the defaults win over the stored document
load_config_defaults_win(file, defaults) ==
    IF file.kind = "document"
    THEN [config |-> update(file.doc, defaults), shared |-> DictValuedKeys, raised |-> FALSE]
    ELSE [config |-> defaults, shared |-> DictValuedKeys, raised |-> FALSE]

\* ConfigManager.load_config(): the dict returned, the keys under which it
\* holds an object of DEFAULT_CONFIG itself, and whether an exception left
\* the method; `defaults` is the content of DEFAULT_CONFIG at the time
load_config(file, defaults) ==
    IF file.kind = "absent"
    THEN [config |-> defaults, shared |-> DictValuedKeys, raised |-> FALSE]
    ELSE IF file.kind = "document"
    THEN [config |-> update(defaults, file.doc),
          shared |-> DictValuedKeys \ DOMAIN file.doc,
          raised |-> FALSE]
    \* json.load or dict.update raised: caught at line 33
    ELSE [config |-> defaults, shared |-> DictValuedKeys, raised |-> FALSE]

\* what the config file can be: absent, not JSON, JSON that is no object, or
\* a document with some of the keys and possibly a key the defaults lack
ConfigFiles ==
    { [kind |-> "absent"], [kind |-> "invalid json"], [kind |-> "not an object"] }
    \cup { [kind |-> "document", doc |-> d] :
             d \in { EmptyDict,
                     [k \in {"hotfolder_root"} |-> HotRoot],
                     [k \in {"routing_rules", "theme"} |->
                        IF k = "theme" THEN "dark"
                        ELSE [p \in {"Canon"} |->
                                << RuleRecord(RuleKeys, "A", "Normal", CriteriaMatte) >>]],
                     [k \in {"client_art_folders", "enable_art_copy"} |->
                        IF k = "enable_art_copy" THEN FALSE
                        ELSE [c \in {"Client A"} |-> ArtFolderA]] } }

\* the arguments of set(key, value) and update(updates) the settings screen uses
ConfigUpdates ==
    { [k \in {"hotfolder_root"} |-> HotRoot],
      [k \in {"enable_art_copy"} |-> FALSE],
      [k \in {"client_art_folders"} |-> [c \in {"Client A"} |-> ArtFolderA]],
      [k \in {"hotfolder_root", "enable_art_copy", "theme"} |->
         CASE k = "hotfolder_root" -> HotRoot
           [] k = "enable_art_copy" -> TRUE
           [] k = "theme" -> "dark"] }

\* the rules add_routing_rule is given
ConfigRules ==
    { RuleRecord(RuleKeys, "A", "High", CriteriaMatte),
      RuleRecord(RuleKeys, "B", "Low", CriteriaMatteBleed) }

\* the manager's attributes the engine reads are entries of its config dict
ManagerHolds(config) ==
    /\ routing_rules' = config["routing_rules"]
    /\ client_art_folders' = config["client_art_folders"]
    /\ hotfolder_root' = config["hotfolder_root"]
    /\ enable_art_copy' = config["enable_art_copy"]
    /\ UNCHANGED <<dirs, files>>

\* ConfigManager() at program start (MainWindow.__init__): load_config
LoadConfig ==
    /\ call.op = "start"
    /\ \E file \in ConfigFiles :
         \E loaded \in {load_config(file, call.defaults)} :
           /\ call' = [op       |-> "load_config",
                       file     |-> file,
                       config   |-> loaded.config,
                       shared   |-> loaded.shared,
                       raised   |-> loaded.raised,
                       defaults |-> call.defaults]
           /\ ManagerHolds(loaded.config)

\* another ConfigManager() later in the same process
LoadConfigAgain ==
    /\ call.op # "start"
    /\ \E file \in ConfigFiles :
         \E loaded \in {load_config(file, call.defaults)} :
           /\ call' = [op       |-> "load_config",
                       file     |-> file,
                       config   |-> loaded.config,
                       shared   |-> loaded.shared,
                       raised   |-> loaded.raised,
                       defaults |-> call.defaults]
           /\ ManagerHolds(loaded.config)

\* ConfigManager.set(key, value)
Set ==
    /\ call.op # "start"
    /\ \E updates \in {u \in ConfigUpdates : Cardinality(DOMAIN u) = 1} :
         \E config \in {update(call.config, updates)} :
           /\ call' = [op       |-> "set",
                       updates  |-> updates,
                       file     |-> call.file,
                       config   |-> config,
                       shared   |-> call.shared \ DOMAIN updates,
                       defaults |-> call.defaults]
           /\ ManagerHolds(config)

\* ConfigManager.update(updates)
Update ==
    /\ call.op # "start"
    /\ \E updates \in ConfigUpdates :
         \E config \in {update(call.config, updates)} :
           /\ call' = [op       |-> "update",
                       updates  |-> updates,
                       file     |-> call.file,
                       config   |-> config,
                       shared   |-> call.shared \ DOMAIN updates,
                       defaults |-> call.defaults]
           /\ ManagerHolds(config)

\* ConfigManager.add_routing_rule(printer, rule): the dict under
\* "routing_rules" is changed in place, and with it DEFAULT_CONFIG when the
\* manager's entry is the object DEFAULT_CONFIG holds
ConfigAddRoutingRule ==
    /\ call.op # "start"
    /\ CountRules(routing_rules, DOMAIN routing_rules) < MaxRules
    /\ \E printer \in PrinterNames, rule \in ConfigRules :
         \E rules \in {add_routing_rule(call.config["routing_rules"], printer, rule)} :
           /\ call' = [op       |-> "add_routing_rule",
                       printer  |-> printer,
                       rule     |-> rule,
                       file     |-> call.file,
                       config   |-> [call.config EXCEPT !["routing_rules"] = rules],
                       shared   |-> call.shared,
                       defaults |-> IF "routing_rules" \in call.shared
                                    THEN [call.defaults EXCEPT !["routing_rules"] = rules]
                                    ELSE call.defaults]
           /\ ManagerHolds([call.config EXCEPT !["routing_rules"] = rules])

\* the rules add_routing_rule is given on a loaded configuration
AddedRules ==
    ConfigRules \cup { RuleRecord(RuleKeys, "B", "Normal", CriteriaMatte),
                       RuleRecord({"target_folder", "criteria"}, "B", "", CriteriaMatte) }

\* ConfigManager.add_routing_rule(printer, rule) on a loaded configuration,
\* which may already hold MaxRules rules
AddRoutingRuleToLoaded ==
    \E printer \in PrinterNames, rule \in AddedRules :
        /\ CountRules(routing_rules, DOMAIN routing_rules) <= MaxRules
        /\ routing_rules' = add_routing_rule(routing_rules, printer, rule)
        /\ call' = [op |-> "add_routing_rule", printer |-> printer, rule |-> rule]
        /\ UNCHANGED <<hotfolder_root, enable_art_copy, client_art_folders, dirs, files>>

NextAdd ==
    \/ AddRoutingRuleToLoaded

SpecAdd == InitAnalyze /\ [][NextAdd]_vars

\* the process has imported constants.py and created no manager yet
InitConfig ==
    /\ routing_rules = EmptyDict
    /\ hotfolder_root = NoPath
    /\ enable_art_copy = TRUE
    /\ client_art_folders = EmptyDict
    /\ dirs = {}
    /\ files = {}
    /\ call = [op |-> "start", defaults |-> DEFAULT_CONFIG]

\* the program: one manager, created at start
NextLoad ==
    \/ LoadConfig
    \/ Set
    \/ Update
    \/ ConfigAddRoutingRule

SpecLoad == InitConfig /\ [][NextLoad]_vars

\* a process that creates managers again and again
NextConfig ==
    \/ LoadConfig
    \/ LoadConfigAgain
    \/ Set
    \/ Update
    \/ ConfigAddRoutingRule

SpecConfig == InitConfig /\ [][NextConfig]_vars

----------------------------------------------------------------------------
(* core/routing_engine.py: detect_folder_attributes on folder names *)

\* names of folders under a printer's hotfolder: for registration, finish,
\* print mode, grommets and media a part with none, one or several of the
\* keywords, in either order and case
DetectedFolderNames ==
    { reg \o " " \o fin \o " " \o mode \o " " \o grom \o " " \o media :
        reg   \in {"", "iCut", "GRAPHTEC", "Graphtec iCut"},
        fin   \in {"", "Matte", "glossy", "Glossy Matte"},
        mode  \in {"", "Flatbed", "Roll", "Roll Flatbed"},
        grom  \in {"", "Grommets", "Grommet Side Bottom", "Grommets Top Corner",
                   "Grommet Sides", "Top"},
        media \in {"", "Canvas Vinyl", "Mesh Banner", "paper", "Scrim canvas"} }
    \cup {"", "A", "Job 12", "Rush 90", "Pole Pocket Top", "Mirror Bleed Rotated"}

\* RoutingEngine.detect_folder_attributes on the name drawn
DetectFolderAttributes ==
    /\ call.op = "pending" /\ call.fn = "detect_folder_attributes"
    /\ call' = [op          |-> "detect_folder_attributes",
                folder_name |-> call.folder_name,
                result      |-> detect_folder_attributes(call.folder_name)]
    /\ UNCHANGED <<routing_rules, hotfolder_root, enable_art_copy,
                   client_art_folders, dirs, files>>

InitDetect ==
    /\ routing_rules = EmptyDict
    /\ hotfolder_root = << >>
    /\ enable_art_copy = TRUE
    /\ client_art_folders = EmptyDict
    /\ dirs = {}
    /\ files = {}
    /\ call \in { [op |-> "pending", fn |-> "detect_folder_attributes",
                   folder_name |-> f] : f \in DetectedFolderNames }

NextDetect ==
    \/ DetectFolderAttributes

SpecDetect == InitDetect /\ [][NextDetect]_vars

----------------------------------------------------------------------------
(* core/routing_engine.py: auto_match_clients *)

\* difflib.SequenceMatcher.find_longest_match without junk: the longest block
\* a[i..i+k-1] = b[j..j+k-1], of those the one starting earliest in a, of
\* those the one starting earliest in b; << >> when no character is shared
find_longest_match(a, b) ==
    LET blocks == {blk \in (1..Len(a)) \X (1..Len(b)) \X (1..Len(a)) :
                     /\ blk[1] + blk[3] - 1 <= Len(a)
                     /\ blk[2] + blk[3] - 1 <= Len(b)
                     /\ SubSeq(a, blk[1], blk[1] + blk[3] - 1)
                           = SubSeq(b, blk[2], blk[2] + blk[3] - 1)}
    IN  IF blocks = {} THEN << >>
        ELSE CHOOSE blk \in blocks :
               \A other \in blocks :
                 \/ blk[3] > other[3]
                 \/ blk[3] = other[3] /\ blk[1] < other[1]
                 \/ blk[3] = other[3] /\ blk[1] = other[1] /\ blk[2] <= other[2]

\* the total size of SequenceMatcher.get_matching_blocks: the longest block,
\* then the same to its left and to its right
RECURSIVE matching_size(_, _)
matching_size(a, b) ==
    LET blk == find_longest_match(a, b)
    IN  IF blk = << >> THEN 0
        ELSE blk[3]
             + matching_size(SubSeq(a, 1, blk[1] - 1), SubSeq(b, 1, blk[2] - 1))
             + matching_size(SubSeq(a, blk[1] + blk[3], Len(a)),
                             SubSeq(b, blk[2] + blk[3], Len(b)))

\* SequenceMatcher(None, a, b).ratio() as the fraction <<numerator, denominator>>:
\* 2.0 * matches / (len(a) + len(b)), and 1.0 for two empty strings
ratio(a, b) ==
    IF Len(a) + Len(b) = 0 THEN <<1, 1>>
    ELSE <<2 * matching_size(a, b), Len(a) + Len(b)>>

\* r > s on two such fractions
RatioGreater(r, s) == r[1] * s[2] > s[1] * r[2]

\* the 60% similarity threshold, 0.6
similarity_threshold == <<3, 5>>

\* the loop over folder_list of auto_match_clients with  >=  for the threshold
RECURSIVE best_match_at_threshold(_, _, _, _)
best_match_at_threshold(client, folder_list, i, best) ==
    IF i > Len(folder_list) THEN best
    ELSE LET r == ratio(Lower(client), Lower(folder_list[i]))
         IN  best_match_at_threshold(client, folder_list, i + 1,
                        IF RatioGreater(r, best.ratio) /\ ~RatioGreater(similarity_threshold, r)
                        THEN [folder |-> folder_list[i], ratio |-> r]
                        ELSE best)

\* the loop over folder_list: best_match and best_ratio after folders i..
RECURSIVE best_match(_, _, _, _)
best_match(client, folder_list, i, best) ==
    IF i > Len(folder_list) THEN best
    ELSE LET r == ratio(Lower(client), Lower(folder_list[i]))
         IN  best_match(client, folder_list, i + 1,
                        IF RatioGreater(r, best.ratio) /\ RatioGreater(r, similarity_threshold)
                        THEN [folder |-> folder_list[i], ratio |-> r]
                        ELSE best)

\* config_manager.get_art_root_path()
art_root_path == <<"art">>

\* RoutingEngine.auto_match_clients(client_list, folder_list): the matches
\* after the clients i.. of client_list
RECURSIVE auto_match_from(_, _, _, _, _)
auto_match_from(client_list, folder_list, existing_mappings, i, matches) ==
    IF i > Len(client_list) THEN matches
    ELSE LET client == client_list[i]
             best   == best_match(client, folder_list, 1,
                                  [folder |-> PyNone, ratio |-> <<0, 1>>])
         IN  auto_match_from(client_list, folder_list, existing_mappings, i + 1,
               IF client \in DOMAIN existing_mappings \/ best.folder \in {PyNone, ""}
               THEN matches
               ELSE [c \in DOMAIN matches \cup {client} |->
                       IF c = client
                       THEN [folder    |-> best.folder,
                             ratio     |-> best.ratio,
                             full_path |-> Append(art_root_path, best.folder)]
                       ELSE matches[c]])

auto_match_clients(client_list, folder_list, existing_mappings) ==
    auto_match_from(client_list, folder_list, existing_mappings, 1, EmptyDict)

\* the clients of the client list and the names of the folders under the art
\* root: equal but for case, close (ratio 6/7, 4/5), at the threshold
\* (3/5 for "abcde" and "abcxy"), and apart
MatchClients == {"Acme", "abcde", "Zed"}

MatchFolderNames == {"ACME", "acme", "Acm", "abcxy", "abcdx", "Acme Signs Inc"}

\* RoutingEngine.auto_match_clients on the lists drawn
AutoMatchClients ==
    /\ call.op = "pending" /\ call.fn = "auto_match_clients"
    /\ call' = [op          |-> "auto_match_clients",
                client_list |-> call.client_list,
                folder_list |-> call.folder_list,
                result      |-> auto_match_clients(call.client_list, call.folder_list,
                                                   client_art_folders)]
    /\ UNCHANGED <<routing_rules, hotfolder_root, enable_art_copy,
                   client_art_folders, dirs, files>>

InitAutoMatch ==
    /\ routing_rules = EmptyDict
    /\ hotfolder_root = << >>
    /\ enable_art_copy = TRUE
    /\ client_art_folders \in { [c \in mapped |-> Append(art_root_path, c)] :
                                  mapped \in {{}, {"Acme"}, {"abcde", "Zed"}} }
    /\ dirs = {}
    /\ files = {}
    /\ call \in { [op |-> "pending", fn |-> "auto_match_clients",
                   client_list |-> cl, folder_list |-> fl] :
                    cl \in SeqsUpTo(MatchClients, MaxFolders),
                    fl \in SeqsUpTo(MatchFolderNames, MaxFolders) }

NextAutoMatch ==
    \/ AutoMatchClients

SpecAutoMatch == InitAutoMatch /\ [][NextAutoMatch]_vars

----------------------------------------------------------------------------
(* Claims about validate_filename *)

\* the character c occurs in the name
HasChar(name, c) == \E i \in 1..Len(name) : SubSeq(name, i, i) = c

\* the characters no file name may hold
ForbiddenChars == {"<", ">", ":", "\"", "/", "\\", "|", "?", "*"}

\* the device names, in upper case
DeviceNames ==
    {"CON", "PRN", "AUX", "NUL",
     "COM1", "COM2", "COM3", "COM4", "COM5", "COM6", "COM7", "COM8", "COM9",
     "LPT1", "LPT2", "LPT3", "LPT4", "LPT5", "LPT6", "LPT7", "LPT8", "LPT9"}

\* the name without the extension at its end
BaseName(name) ==
    IF Len(name) >= 4 /\ SubSeq(name, Len(name) - 3, Len(name)) = ".pdf"
    THEN SubSeq(name, 1, Len(name) - 4)
    ELSE name

\* the entries of the issues list a name has to have: one for each check
\* the name violates
IssuesOwed(name) ==
    (IF name = ".pdf" THEN {"Filename contains only extension"} ELSE {})
    \cup {"Contains invalid character: '" \o c \o "'" : c \in {d \in ForbiddenChars : HasChar(name, d)}}
    \cup (IF Len(name) > 200 THEN {"Filename is too long (>200 characters)"} ELSE {})
    \cup (IF Upper(BaseName(name)) \in DeviceNames
          THEN {"'" \o Upper(BaseName(name)) \o "' is a reserved filename"} ELSE {})
    \cup (IF \E i \in 1..(Len(name) - 1) : SubSeq(name, i, i + 1) = "__"
          THEN {"Contains double underscores (possible missing data)"} ELSE {})

\* how often an entry occurs in a list
Occurrences(list, entry) == Cardinality({i \in DOMAIN list : list[i] = entry})

\* C21: for a non-empty name validate_filename returns every issue, not only
\* the first: the issues list holds one entry for each violated check (the
\* bare extension, each forbidden character that occurs, a length above 200,
\* a base name that is a reserved device name in any case, a double
\* underscore), and is_valid is true exactly when the list is empty.
C21_OneIssuePerViolatedCheck ==
    (call.op = "validate_filename" /\ call.filename # "")
        => /\ \A entry \in IssuesOwed(call.filename) :
                 Occurrences(call.result.issues, entry) = 1
           /\ Len(call.result.issues) >= Cardinality(IssuesOwed(call.filename))
           /\ call.result.is_valid <=> (call.result.issues = << >>)

\* a name that violates several checks at once has been validated, and so
\* has a name that violates none
C21_Witness ==
    /\ call.op = "validate_filename"
    /\ call.filename # ""
    /\ Cardinality(IssuesOwed(call.filename)) >= 3
    /\ Len(call.filename) > 200
    /\ ~call.result.is_valid

\* a generated name with a double underscore was validated
C21_GeneratedNameWithIssue ==
    /\ call.op = "validate_filename"
    /\ call.filename \notin TypedFilenames
    /\ call.result.issues = << "Contains double underscores (possible missing data)" >>

\* a name was reported valid
C21_ValidName ==
    /\ call.op = "validate_filename"
    /\ call.result.is_valid

\* a name has an entry that no violated check accounts for: ".pdf" is removed
\* wherever it occurs, not only at the end
C21_EntryWithoutViolatedCheck ==
    /\ call.op = "validate_filename"
    /\ call.filename # ""
    /\ \E i \in DOMAIN call.result.issues :
          call.result.issues[i] \notin IssuesOwed(call.filename)

----------------------------------------------------------------------------
(* Claims about auto_match_clients *)

\* the similarity of a client and a folder name, case ignored
Similarity(client, folder) == ratio(Lower(client), Lower(folder))

\* the positions in the folder list whose similarity to the client is above 0.6
AboveThreshold(client, folder_list) ==
    {i \in DOMAIN folder_list :
        RatioGreater(Similarity(client, folder_list[i]), <<6, 10>>)}

\* the first position of the greatest similarity among the folders
FirstBest(client, folder_list) ==
    CHOOSE i \in DOMAIN folder_list :
      /\ \A j \in DOMAIN folder_list :
            ~RatioGreater(Similarity(client, folder_list[j]),
                          Similarity(client, folder_list[i]))
      /\ \A j \in 1..(i - 1) :
            RatioGreater(Similarity(client, folder_list[i]),
                         Similarity(client, folder_list[j]))

\* C22: auto_match_clients has an entry for a client of the list exactly when
\* the client is not already mapped and some folder's similarity is strictly
\* above 0.6 (exactly 0.6 does not match); the entry's folder has the greatest
\* similarity of all folders, the first in input order among equals; mapped
\* clients never appear.
C22_BestFolderAboveThreshold ==
    call.op = "auto_match_clients"
        => /\ \A c \in MatchClients :
                 c \in DOMAIN call.result
                   <=> /\ \E i \in DOMAIN call.client_list : call.client_list[i] = c
                       /\ c \notin DOMAIN client_art_folders
                       /\ AboveThreshold(c, call.folder_list) # {}
           /\ DOMAIN call.result \subseteq MatchClients
           /\ \A c \in DOMAIN call.result :
                 call.result[c].folder
                   = call.folder_list[FirstBest(c, call.folder_list)]

\* a client matched the first of two folders of equal, greatest similarity
\* while another client, already mapped, got no entry
C22_Witness ==
    /\ call.op = "auto_match_clients"
    /\ \E c \in DOMAIN call.result :
          /\ Len(call.folder_list) = 2
          /\ call.folder_list[1] # call.folder_list[2]
          /\ Similarity(c, call.folder_list[1]) = Similarity(c, call.folder_list[2])
          /\ call.result[c].folder = call.folder_list[1]
    /\ \E i \in DOMAIN call.client_list :
          /\ call.client_list[i] \in DOMAIN client_art_folders
          /\ AboveThreshold(call.client_list[i], call.folder_list) # {}

\* the only folder has similarity exactly 0.6 and the client got no entry
C22_ExactlyAtThreshold ==
    /\ call.op = "auto_match_clients"
    /\ call.client_list = << "abcde" >>
    /\ call.folder_list = << "abcxy" >>
    /\ Similarity("abcde", "abcxy") = <<6, 10>>
    /\ client_art_folders = EmptyDict
    /\ call.result = EmptyDict

\* the later folder is the better one and is chosen
C22_LaterFolderBetter ==
    /\ call.op = "auto_match_clients"
    /\ \E c \in DOMAIN call.result :
          /\ Len(call.folder_list) = 2
          /\ RatioGreater(Similarity(c, call.folder_list[1]), <<6, 10>>)
          /\ call.result[c].folder = call.folder_list[2]
          /\ call.folder_list[1] # call.folder_list[2]

----------------------------------------------------------------------------
(* Claims about analyze_routing_setup *)

\* the folder names of a list of the analysis whose entries are records
FoldersIn(entries) == {entries[k].folder : k \in DOMAIN entries}

\* the number of stored rules of the analysed printer that target a folder
RulesTargeting(folder) ==
    Cardinality({i \in DOMAIN call.rules : StoredTarget(call.rules[i]) = folder})

\* C23: analyze_routing_setup puts every input folder in exactly one of the
\* mapped, auto-detected and unmapped lists, the three lists together have as
\* many entries as there are input folders, a folder is listed as conflicting
\* exactly when more than one rule targets it, and every conflicting folder
\* is also mapped.
C23_FoldersPartitioned ==
    call.op = "analyze_routing_setup"
        => LET r        == call.result
               mapped   == FoldersIn(r.mapped_folders)
               auto     == FoldersIn(r.auto_detected_folders)
               unmapped == {r.unmapped_folders[k] : k \in DOMAIN r.unmapped_folders}
               conflict == FoldersIn(r.conflicting_rules)
               inputs   == {call.folders[n] : n \in DOMAIN call.folders}
           IN  /\ \A f \in inputs :
                     Cardinality({l \in {"m", "a", "u"} :
                                      \/ l = "m" /\ f \in mapped
                                      \/ l = "a" /\ f \in auto
                                      \/ l = "u" /\ f \in unmapped}) = 1
               /\ mapped \cup auto \cup unmapped \subseteq inputs
               /\ Len(r.mapped_folders) + Len(r.auto_detected_folders)
                     + Len(r.unmapped_folders) = Len(call.folders)
               /\ \A f \in inputs : f \in conflict <=> RulesTargeting(f) > 1
               /\ conflict \subseteq mapped

\* an analysis of two folders, one targeted by two rules and one that no rule
\* targets but whose name carries a keyword
C23_Witness ==
    /\ call.op = "analyze_routing_setup"
    /\ Len(call.folders) = 2
    /\ FoldersIn(call.result.conflicting_rules) # {}
    /\ Len(call.result.auto_detected_folders) = 1

\* an analysis with an unmapped folder and a mapped folder without conflict
C23_UnmappedAndMapped ==
    /\ call.op = "analyze_routing_setup"
    /\ Len(call.result.unmapped_folders) = 1
    /\ Len(call.result.mapped_folders) = 1
    /\ Len(call.result.conflicting_rules) = 0

\* the same folder given twice is listed twice
C23_FolderTwice ==
    /\ call.op = "analyze_routing_setup"
    /\ Len(call.folders) = 2
    /\ call.folders[1] = call.folders[2]
    /\ Len(call.result.mapped_folders) = 2

----------------------------------------------------------------------------
(* Claims about detect_folder_attributes *)

\* the keyword occurs in the name, whatever the case
HasKeyword(name, kw) ==
    \E i \in 1..(Len(name) - Len(kw) + 1) : Lower(SubSeq(name, i, i + Len(kw) - 1)) = kw

\* the value of the first choice whose keyword occurs in the name, PyNone
\* when none does; choices is a sequence of <<keyword, value>>
RECURSIVE FirstChoice(_, _)
FirstChoice(name, choices) ==
    IF choices = << >> THEN PyNone
    ELSE IF HasKeyword(name, choices[1][1]) THEN choices[1][2]
    ELSE FirstChoice(name, Tail(choices))

\* the value an attribute has in a mapping, PyNone when it has none
ValueOf(mapping, attr) == IF attr \in DOMAIN mapping THEN mapping[attr] ELSE PyNone

\* every keyword of the detection table
TableKeywords ==
    {"bleed", "90", "rotated", "rotate", "icut", "graphtec", "matte", "glossy",
     "grommet", "pole", "pocket", "mirror", "flatbed", "roll", "rush",
     "vinyl", "banner", "scrim", "mesh", "paper", "canvas"}

\* C24: detect_folder_attributes gives each attribute at most one value, by
\* fixed precedence: Registration is iCut whenever "icut" occurs and Graphtec
\* only if it does not, Finish is Matte whenever "matte" occurs and Glossy
\* only if it does not, Print Mode is Flatbed whenever "flatbed" occurs and
\* Roll only if it does not, Grommets (for a name with "grommet") is chosen
\* in the order corner, top, bottom, side, else All, Media Group comes from
\* the first keyword found in the order vinyl, banner, scrim, mesh, paper,
\* canvas; a name with none of the table's keywords yields an empty mapping.
C24_FixedPrecedence ==
    call.op = "detect_folder_attributes"
        => LET name == call.folder_name
               d    == call.result
           IN  /\ ValueOf(d, "Registration")
                     = FirstChoice(name, << <<"icut", "iCut">>, <<"graphtec", "Graphtec">> >>)
               /\ ValueOf(d, "Finish")
                     = FirstChoice(name, << <<"matte", "Matte">>, <<"glossy", "Glossy">> >>)
               /\ ValueOf(d, "Print Mode")
                     = FirstChoice(name, << <<"flatbed", "Flatbed">>, <<"roll", "Roll">> >>)
               /\ ValueOf(d, "Grommets")
                     = IF HasKeyword(name, "grommet")
                       THEN FirstChoice(name, << <<"corner", "Corners">>, <<"top", "Top">>,
                                                 <<"bottom", "Bottom">>, <<"side", "Sides">>,
                                                 <<"", "All">> >>)
                       ELSE PyNone
               /\ ValueOf(d, "Media Group")
                     = FirstChoice(name, << <<"vinyl", "Vinyl">>, <<"banner", "Banner">>,
                                            <<"scrim", "Banner">>, <<"mesh", "Banner">>,
                                            <<"paper", "Paper">>, <<"canvas", "Paper">> >>)
               /\ (\A kw \in TableKeywords : ~HasKeyword(name, kw)) => d = EmptyDict

\* a name with both keywords of every pair, the later-ranked one first, and
\* two media keywords of different groups
C24_Witness ==
    /\ call.op = "detect_folder_attributes"
    /\ call.folder_name = "Graphtec iCut Glossy Matte Roll Flatbed Grommets Top Corner Canvas Vinyl"
    /\ call.result = [a \in {"Registration", "Finish", "Print Mode", "Grommets", "Media Group"} |->
                        CASE a = "Registration" -> "iCut"
                          [] a = "Finish" -> "Matte"
                          [] a = "Print Mode" -> "Flatbed"
                          [] a = "Grommets" -> "Corners"
                          [] a = "Media Group" -> "Vinyl"]

\* a non-empty name without any keyword gave the empty mapping
C24_NoKeyword ==
    /\ call.op = "detect_folder_attributes"
    /\ call.folder_name = "Job 12"
    /\ call.result = EmptyDict

\* grommets without a position keyword gave All
C24_GrommetsAll ==
    /\ call.op = "detect_folder_attributes"
    /\ ValueOf(call.result, "Grommets") = "All"
    /\ ValueOf(call.result, "Registration") = "Graphtec"

----------------------------------------------------------------------------
(* Claims about the configuration manager *)

\* C25: load_config merges the stored document over the defaults: every key
\* of the stored document has the stored value, keys the defaults lack are
\* kept, keys the document lacks have the documented default; when the file
\* is absent or loading fails the configuration equals the documented
\* defaults in full, and no error is raised.
C25_StoredOverDefaults ==
    call.op = "load_config"
        => /\ ~call.raised
           /\ IF call.file.kind = "document"
              THEN /\ DOMAIN call.config = DOMAIN call.file.doc \cup DOMAIN DEFAULT_CONFIG
                   /\ \A k \in DOMAIN call.file.doc : call.config[k] = call.file.doc[k]
                   /\ \A k \in DOMAIN DEFAULT_CONFIG \ DOMAIN call.file.doc :
                         call.config[k] = DEFAULT_CONFIG[k]
              ELSE call.config = DEFAULT_CONFIG
           /\ routing_rules = call.config["routing_rules"]
           /\ hotfolder_root = call.config["hotfolder_root"]

\* a document with stored rules and a key the defaults lack was loaded: the
\* rules and the unknown key are there, the hotfolder root is the default
C25_Witness ==
    /\ call.op = "load_config"
    /\ call.file.kind = "document"
    /\ "theme" \in DOMAIN call.config
    /\ routing_rules # EmptyDict
    /\ hotfolder_root = DEFAULT_CONFIG["hotfolder_root"]

\* a file that is not JSON gave the defaults
C25_LoadFailed ==
    /\ call.op = "load_config"
    /\ call.file.kind = "invalid json"
    /\ call.config = DEFAULT_CONFIG

\* a stored value replaced a default
C25_StoredWins ==
    /\ call.op = "load_config"
    /\ call.file.kind = "document"
    /\ hotfolder_root = HotRoot

\* C27: set, update and add_routing_rule on a manager that was loaded from
\* the defaults never modify the default configuration, so a manager created
\* afterwards without a config file gets the original defaults, with empty
\* routing_rules and client_art_folders.
C27_DefaultsNeverModified ==
    [][(call.op # "start" /\ call.file.kind # "document")
         => /\ call'.defaults = call.defaults
            /\ (call.defaults = DEFAULT_CONFIG
                  /\ call'.op = "load_config" /\ call'.file.kind = "absent")
                 => /\ call'.config = DEFAULT_CONFIG
                    /\ routing_rules' = EmptyDict
                    /\ client_art_folders' = EmptyDict]_vars

\* a manager created without a config file holds a routing rule that an
\* earlier manager added
C27_LaterManagerHoldsRule ==
    /\ call.op = "load_config"
    /\ call.file.kind = "absent"
    /\ routing_rules # EmptyDict

\* set and update of the same keys left the defaults as documented
C27_SetLeavesDefaults ==
    /\ call.op \in {"set", "update"}
    /\ call.file.kind = "absent"
    /\ call.config # DEFAULT_CONFIG
    /\ call.defaults = DEFAULT_CONFIG

----------------------------------------------------------------------------
(* Claims relating the dry run and the processing of a file *)

\* C26: whenever determine_target_folder returns a folder T for a job
\* (test_job_routing reports success with target_folder T) and the hotfolder
\* root and the printer folder exist, process_file for the same job and
\* configuration copies the file into the sub-folder T of the printer
\* folder; the "Default" sub-folder is used only when determine_target_folder
\* returns None.
C26_ProcessedWhereDryRunSays ==
    [][call'.op = "process_file"
         => LET job          == call'.job
                dry_run      == test_job_routing(routing_rules, job)
                printer_path == Append(hotfolder_root, PrinterFolderOf(job.printer))
            IN  (/\ hotfolder_root # << >>
                 /\ hotfolder_root \in dirs
                 /\ printer_path \in dirs
                 /\ call'.raised.hotfolder = "none")
                => /\ dry_run.success
                       => /\ call'.result.hotfolder.path
                               = Append(printer_path, dry_run.target_folder)
                          /\ Append(Append(printer_path, dry_run.target_folder),
                                    call'.filename) \in files'
                   /\ call'.result.hotfolder.path = Append(printer_path, "Default")
                       => determine_target_folder(routing_rules, job) = PyNone]_vars

\* a file went to the sub-folder the dry run names
C26_SameFolder ==
    /\ call.op = "process_file"
    /\ call.result.hotfolder.success = "True"
    /\ test_job_routing(routing_rules, call.job).success
    /\ call.result.hotfolder.path
         = <<"hot", PrinterFolderOf(call.job.printer),
             test_job_routing(routing_rules, call.job).target_folder>>

\* a file went to "Default" although the dry run reports success
C26_DefaultDespiteMatch ==
    /\ call.op = "process_file"
    /\ call.result.hotfolder.success = "True"
    /\ test_job_routing(routing_rules, call.job).success
    /\ call.result.hotfolder.path = <<"hot", PrinterFolderOf(call.job.printer), "Default">>

----------------------------------------------------------------------------
(* Claims about values no job derives *)

\* the values that stand for an unset attribute
SentinelValues == {"", "None", "No"}

\* C28: a rule with a criterion whose required value is "", "None" or "No"
\* matches no job, and a rule with an SSDS Mode criterion matches no job
\* whose print mode is not Flatbed.
C28_SentinelAndSsdsNeverMatch ==
    call.op = "matches_job"
        => /\ (\E k \in DOMAIN call.rule.criteria :
                  call.rule.criteria[k] \in SentinelValues)
                => ~call.result
           /\ ("SSDS Mode" \in DOMAIN call.rule.criteria
                 /\ call.job.print_mode # "Flatbed")
                => ~call.result

\* a rule that requires Mirror = "No" and nothing else met a job whose
\* mirror attribute is "No", and did not match
C28_Witness ==
    /\ call.op = "matches_job"
    /\ call.rule.criteria = [k \in {"Mirror"} |-> "No"]
    /\ call.job.mirror = "No"
    /\ ~call.result

\* a rule that requires SSDS Mode = "DS" and nothing else met a roll job
\* whose SSDS mode is "DS", and did not match
C28_SsdsOnRoll ==
    /\ call.op = "matches_job"
    /\ call.rule.criteria = [k \in {"SSDS Mode"} |-> "DS"]
    /\ call.job.print_mode = "Roll"
    /\ call.job.ssds_mode = "DS"
    /\ ~call.result

\* the same rule matched a flatbed job
C28_SsdsOnFlatbed ==
    /\ call.op = "matches_job"
    /\ call.rule.criteria = [k \in {"SSDS Mode"} |-> "DS"]
    /\ call.job.print_mode = "Flatbed"
    /\ call.result

\* a rule that requires Finish = "" met a job whose finish is "", without match
C28_EmptyValue ==
    /\ call.op = "matches_job"
    /\ call.rule.criteria = [k \in {"Finish"} |-> ""]
    /\ call.job.finish = ""
    /\ ~call.result

----------------------------------------------------------------------------
(* Claims about adding a rule *)

\* the weight of the rule that selected the job's target
SelectingWeight(config_rules, job) ==
    LET rules == get_routing_rules(config_rules, job.printer)
    IN  PriorityWeight(StoredPriority(rules[Winner(rules, job)]))

\* C29: add_routing_rule(printer, rule) appends the rule after the printer's
\* existing rules, keeps their order and leaves every other printer's rules
\* unchanged; so for every job that routed to a folder T, adding a rule whose
\* priority weight is not greater than that of the rule that selected T
\* leaves determine_target_folder's result for the job equal to T.
C29_AppendKeepsRouting ==
    [][call'.op = "add_routing_rule"
         => LET printer == call'.printer
                rule    == call'.rule
                old     == routing_rules
                new     == routing_rules'
            IN  /\ DOMAIN new = DOMAIN old \cup {printer}
                /\ new[printer] = Append(DictGet(old, printer, << >>), rule)
                /\ \A p \in DOMAIN old \ {printer} : new[p] = old[p]
                /\ \A job \in RoutingJobs :
                      (/\ determine_target_folder(old, job) # PyNone
                       /\ PriorityWeight(StoredPriority(rule)) <= SelectingWeight(old, job))
                      => determine_target_folder(new, job)
                           = determine_target_folder(old, job)]_vars

\* a rule was added behind a rule of the same weight and another target that
\* matches the same job, and the job still routes to the earlier rule's target
C29_Witness ==
    /\ call.op = "add_routing_rule"
    /\ "Canon" \in DOMAIN routing_rules
    /\ Len(routing_rules["Canon"]) = 2
    /\ routing_rules["Canon"][2] = call.rule
    /\ StoredTarget(routing_rules["Canon"][1]) # StoredTarget(call.rule)
    /\ StoredPriority(routing_rules["Canon"][1]) = StoredPriority(call.rule)
    /\ \E job \in RoutingJobs :
          /\ job.printer = "Canon"
          /\ MatchingPositions(routing_rules["Canon"], job) = {1, 2}
          /\ determine_target_folder(routing_rules, job)
               = StoredTarget(routing_rules["Canon"][1])

\* a rule was added behind two existing rules of the printer, which kept
\* their order
C29_AddedBehindTwo ==
    /\ call.op = "add_routing_rule"
    /\ call.printer = "Canon"
    /\ "Canon" \in DOMAIN routing_rules
    /\ Len(routing_rules["Canon"]) = 3
    /\ routing_rules["Canon"][3] = call.rule
    /\ routing_rules["Canon"][1] # routing_rules["Canon"][2]
    /\ call.rule \notin {routing_rules["Canon"][1], routing_rules["Canon"][2]}

\* a rule of greater weight was added and took a job over
C29_HeavierRuleTakesOver ==
    /\ call.op = "add_routing_rule"
    /\ "Canon" \in DOMAIN routing_rules
    /\ Len(routing_rules["Canon"]) = 2
    /\ routing_rules["Canon"][2] = call.rule
    /\ StoredTarget(routing_rules["Canon"][1]) # StoredTarget(call.rule)
    /\ \E job \in RoutingJobs :
          /\ job.printer = "Canon"
          /\ MatchingPositions(routing_rules["Canon"], job) = {1, 2}
          /\ determine_target_folder(routing_rules, job) = StoredTarget(call.rule)

\* a rule was added for a printer while another printer has rules
C29_OtherPrinterHasRules ==
    /\ call.op = "add_routing_rule"
    /\ DOMAIN routing_rules = {"Canon", "S60"}

----------------------------------------------------------------------------
(* Claims about the overall result *)

\* C30: the overall success field process_file returns is always exactly
\* True or exactly False, never None, whatever the outcomes of the hotfolder
\* step and of the art copy.
C30_SuccessIsBoolean ==
    call.op = "process_file" => call.result.success \in {"True", "False"}

\* the hotfolder step failed, the art copy was disabled or skipped, and the
\* overall success is None
C30_SuccessNone ==
    /\ call.op = "process_file"
    /\ call.result.hotfolder.success = "False"
    /\ call.result.art_copy.success = PyNone
    /\ call.result.success = PyNone

\* the hotfolder step failed, the art copy failed, and the overall success
\* is False
C30_SuccessFalse ==
    /\ call.op = "process_file"
    /\ call.result.hotfolder.success = "False"
    /\ call.result.art_copy.success = "False"
    /\ call.result.success = "False"

====
